---- MODULE Spec2Model ----
(***************************************************************************)
(* A model of the Rectify repair harness (src/src/realm).                   *)
(*                                                                         *)
(*   SpecRepair    the repair sweep of repair.py: Repairer.repair,          *)
(*                 repair_bug, clean_up and repair_bug_no_cleanup, with the *)
(*                 analyzer workers it starts and the results it records.   *)
(*                                                                         *)
(*   SpecTransform the incremental transformation of runner.py:             *)
(*                 Runner.transform and iter_files, over raw results that   *)
(*                 arrive batch by batch.                                   *)
(*                                                                         *)
(*   SpecValidate  the validation of runner.py: Runner.validate, its        *)
(*                 rounds and chunks and the workers of a chunk.            *)
(*   SpecValidatePatch  validate_patch of runner.py on one candidate patch. *)
(*   SpecHunks     the loop of repair_bug_no_cleanup over the hunks of one  *)
(*                 buggy file, with remove_buggy_hunk.                      *)
(*   SpecFromPatchFile  BuggyFile.from_patch_file of d4j.py on the lines of *)
(*                 one patched file.                                        *)
(*   SpecDefects4J the construction of a Defects4J instance of d4j.py, with *)
(*                 its three bug sets, and its checkouts.                   *)
(*   SpecEvaluate  Runner.evaluate_generation of runner.py over the raw     *)
(*                 results of a finished sweep.                             *)
(*   SpecWait      the messages of repair_bug_no_cleanup to its analyzers   *)
(*                 and wait_until_all_analyzers_free, with analyzers that   *)
(*                 answer when and what they like; SpecWaitFair is SpecWait *)
(*                 with an orchestrator that runs and a clock that ticks.   *)
(*   SpecIterFiles iter_files of runner.py as a generator over the raw      *)
(*                 results of one bug, with the BuggyHunk of every hunk.    *)
(*                                                                         *)
(* Every specification leaves the variables of the other parts unchanged.   *)
(***************************************************************************)
EXTENDS Integers, Sequences, FiniteSets, TLC

VARIABLES
    \* ---- repair.py: the Repairer and its sweep
    config,             \* RepairConfig: bug_pattern, plain, batch_size, n_samples
    hunk_only,          \* the argument of Repairer.repair
    pc,                 \* where the orchestrator is
    bugs_to_repair,     \* the selected bug ids, in iteration order
    bug_idx,            \* index (1-based) of the bug under repair
    k,                  \* position in the analyzer construction / start loops
    COUNTER,            \* utils.COUNTER, the process-wide counter
    analyzers,          \* every JdtLspAnalyzer constructed in this process
    active_connection_analyzer_pairs,   \* indices into analyzers
    hunk_pos,           \* <<file index, change index, sample index>>, 0-based
    exc,                \* an error raised by repair_bug_no_cleanup is in flight
    result_dict,        \* the reporter's in-memory result tree
    saved,              \* the result tree as last persisted by reporter.save
    resumed,            \* the sweep was interrupted and run again
    invoked,            \* history: bug ids repair_bug was called with, this run
    synth_log,          \* history: every synthesize() call: run, bug, hunk, change, round
    synthesis_result_batch, \* the batch most recently synthesized, or None
    \* ---- runner.py: the Report a Runner converts
    plan,               \* the sweep that produces the raw results
    repair_result,      \* report.repair_result.result_dict
    transformed_result, \* report.transformed_result, or None
    fresh,              \* history: transform() calls since the raw results changed
    \* ---- runner.py: Runner.validate
    validation_result,  \* report.validation_result, or None
    vpc,                \* where the validate call is
    val_config,         \* the ValidationConfig of the call
    val_config_idx,     \* its index in validation_configs
    chunks,             \* the chunks still to validate, in order
    running,            \* the items whose validate_patch is running now
    val_results,        \* the results of the workers of the chunk that are done
    val_log,            \* history: every validate_patch run
    \* ---- runner.py: validate_patch
    attempt,            \* the number of validate_patch calls begun
    vp_pc,              \* where validate_patch is
    n_paths,            \* the number of files (paths) of the patch
    patch_file_idx,     \* the file the parse loop is at (1-based)
    checked_out,        \* d4j.checkout(bug_id, buggy=False) was made
    parsed,             \* history: what parsing each file gave
    written,            \* the files written (patch_text_file.write())
    unexpected_exception, \* number of records appended to the file of that name
    compiled,           \* history: what d4j.compile returned, one per call
    tested,             \* history: how each test run ended, one per run
    vp_result,          \* the PatchValidationResult returned, or None
    \* ---- repair.py: the hunks of one buggy file removed
    text_files,         \* the TextFile objects: content and cursor of each
    buggy_text_file,    \* the TextFile loaded from the buggy file (a reference)
    text_file,          \* the TextFile the hunks are removed from (a reference)
    changes,            \* buggy_file.changes, in file order
    n_removed,          \* the number of hunks removed so far
    lm_contexts,        \* history: the prefix and suffix of every hunk removed
    loaded,             \* history: the content that was loaded
    hpc,                \* where the loop over the hunks is
    \* ---- d4j.py: BuggyFile.from_patch_file on one patched file
    patch_file,         \* the lines of the patched file's hunks, in order
    reversed,           \* the argument reversed
    lines_iter,         \* lines_iter: how many lines have been pulled from it
    last_context,       \* last_context: a Line, or None before the first next()
    patch_changes,      \* changes: the Change list built so far
    fpc,                \* where from_patch_file is
    \* ---- d4j.py: a Defects4J instance and its checkouts
    metadata,           \* the benchmark's bugs: bug id -> Bug (_all_bugs)
    d4j,                \* the Defects4J instance: its three bug sets, or None
    checkouts,          \* history: every checkout call and the commands it ran
    dpc,                \* where the instance's caller is
    \* ---- runner.py: Runner.evaluate_generation
    generation,         \* evaluate_generation's result: bug id -> datapoints, or None
    \* ---- repair.py: the analyzers' channels, wait_until_all_analyzers_free
    realm_conns,        \* the number of connections (config.batch_size)
    n_buggy_files,      \* the number of buggy text files opened
    batch_is_free,      \* batch_is_free, one flag per connection
    elapsed,            \* time.perf_counter() - start_time, in ticks
    conn_idx,           \* idx in the loops over the connections, 1-based
    inbox,              \* per connection: messages sent, not yet handled
    outbox,             \* per connection: results sent back, not yet received
    outstanding,        \* history: blocking requests sent minus results received
    wpc,                \* where the orchestrator is
    \* ---- runner.py: iter_files on the raw results of one bug
    file_results,       \* file_results: per file, per hunk, a HunkRepairResult
    yielded,            \* history: the candidate patches yielded so far
    ipc                 \* where the generator is

repairVars == <<config, hunk_only, pc, bugs_to_repair, bug_idx, k, COUNTER,
                analyzers, active_connection_analyzer_pairs, hunk_pos, exc,
                result_dict, saved, resumed, invoked, synth_log,
                synthesis_result_batch>>

runnerVars == <<plan, repair_result, transformed_result, fresh>>

validateVars == <<validation_result, vpc, val_config, val_config_idx, chunks,
                  running, val_results, val_log>>

vpVars == <<attempt, vp_pc, n_paths, patch_file_idx, checked_out, parsed, written,
            unexpected_exception, compiled, tested, vp_result>>

hunkVars == <<text_files, buggy_text_file, text_file, changes, n_removed,
              lm_contexts, loaded, hpc>>

patchVars == <<patch_file, reversed, lines_iter, last_context, patch_changes, fpc>>

d4jVars == <<metadata, d4j, checkouts, dpc>>

evalVars == <<generation>>

waitVars == <<realm_conns, n_buggy_files, batch_is_free, elapsed, conn_idx,
              inbox, outbox, outstanding, wpc>>

iterVars == <<file_results, yielded, ipc>>

vars == <<repairVars, runnerVars, validateVars, vpVars,
         hunkVars,
         patchVars,
         d4jVars,
         evalVars,
         waitVars,
         iterVars>>

\* what the repair sweep leaves alone
notRepairVars == <<runnerVars, validateVars, vpVars,
    hunkVars,
    patchVars,
    d4jVars,
    evalVars,
    waitVars,
    iterVars>>

\* what Runner.transform leaves alone
notRunnerVars == <<repairVars, validateVars, vpVars,
    hunkVars,
    patchVars,
    d4jVars,
    evalVars,
    waitVars,
    iterVars>>

\* what Runner.validate leaves alone
notValidateVars == <<repairVars, plan, repair_result, fresh, vpVars,
    hunkVars,
    patchVars,
    d4jVars,
    evalVars,
    waitVars,
    iterVars>>

\* what validate_patch leaves alone
notVPVars == <<repairVars, runnerVars, validateVars,
    hunkVars,
    patchVars,
    d4jVars,
    evalVars,
    waitVars,
    iterVars>>

\* what the removal of the hunks of a file leaves alone
notHunkVars == <<repairVars, runnerVars, validateVars, vpVars,
    patchVars,
    d4jVars,
    evalVars,
    waitVars,
    iterVars>>

\* what from_patch_file leaves alone
notPatchVars == <<repairVars, runnerVars, validateVars, vpVars, hunkVars,
    d4jVars,
    evalVars,
    waitVars,
    iterVars>>

\* what Defects4J.__init__ and checkout leave alone
notD4JVars == <<repairVars, runnerVars, validateVars, vpVars, hunkVars,
    patchVars,
    evalVars,
    waitVars,
    iterVars>>

\* what evaluate_generation leaves alone, the runner's state apart
notEvalVars == <<repairVars, validateVars, vpVars, hunkVars, patchVars,
                 d4jVars,
    waitVars,
    iterVars>>

\* what the messages to the analyzers and the wait leave alone
notWaitVars == <<repairVars, runnerVars, validateVars, vpVars, hunkVars,
    patchVars, d4jVars, evalVars,
    iterVars>>

\* what iter_files leaves alone
notIterVars == <<repairVars, runnerVars, validateVars, vpVars, hunkVars,
    patchVars, d4jVars, evalVars, waitVars>>

(***************************************************************************)
(* Bounds of the model.                                                     *)
(***************************************************************************)
MaxBatchSize == 2
MaxSamples == 2
MaxCores == 2
MaxCalls == 2
MaxFiles == 2
MaxAttempts == 2
MaxLines == 4
MaxChanges == 2
MaxPatchLines == 5
MaxCheckouts == 2
MaxRounds == 3
MaxWaitingTime == 2

(***************************************************************************)
(* Helpers.                                                                 *)
(***************************************************************************)
\* python's None
None == [None |-> TRUE]

Range(s) == {s[i] : i \in DOMAIN s}

NoDuplicates(s) == \A i, j \in DOMAIN s : s[i] = s[j] => i = j

RECURSIVE SelectSeqBy(_, _)
\* the subsequence of s whose elements are in the set keep (a dict
\* comprehension keeps the iteration order of the mapping it filters)
SelectSeqBy(s, keep) ==
    IF s = <<>> THEN <<>>
    ELSE IF Head(s) \in keep THEN <<Head(s)>> \o SelectSeqBy(Tail(s), keep)
    ELSE SelectSeqBy(Tail(s), keep)

RECURSIVE Flatten(_)
\* the concatenation of a sequence of sequences
Flatten(ss) == IF ss = <<>> THEN <<>> ELSE Head(ss) \o Flatten(Tail(ss))

(***************************************************************************)
(* d4j.py: the benchmark's bugs.  A bug id "Lang-25" is the token sequence  *)
(* <<"Lang", "-", "25">>; a Bug is its buggy files, each the number of its   *)
(* changes.                                                                 *)
(***************************************************************************)
Chart11 == <<"Chart", "-", "11">>
Lang25 == <<"Lang", "-", "25">>
Lang26 == <<"Lang", "-", "26">>
Math5 == <<"Math", "-", "5">>

\* Defects4J.all_bugs, in the mapping's iteration order
all_bug_ids == <<Chart11, Lang25, Lang26, Math5>>

\* Bug.buggy_files: for every file, the number of its changes
buggy_files(bug_id) ==
    CASE bug_id = Chart11 -> <<1>>
      [] bug_id = Lang25 -> <<1>>
      [] bug_id = Lang26 -> <<2, 1>>
      [] bug_id = Math5 -> <<1>>

all_bugs == Range(all_bug_ids)

single_hunk_bugs ==
    {id \in all_bugs : Len(buggy_files(id)) = 1 /\ buggy_files(id)[1] = 1}

(***************************************************************************)
(* regex: a pattern is a sequence of tokens, ".*" matching any run of       *)
(* tokens and every other token itself.                                     *)
(***************************************************************************)
RECURSIVE fullmatch(_, _)
\* re.fullmatch: the pattern matches all of s
fullmatch(p, s) ==
    IF p = <<>> THEN s = <<>>
    ELSE IF Head(p) = ".*"
         THEN \E n \in 0..Len(s) : fullmatch(Tail(p), SubSeq(s, n + 1, Len(s)))
         ELSE s # <<>> /\ Head(s) = Head(p) /\ fullmatch(Tail(p), Tail(s))

BugPatterns ==
    { <<".*">>, <<"Lang", "-", ".*">>, <<"Lang">>, <<"Chart", "-", "11">>,
      <<".*", "5">> }

(***************************************************************************)
(* repair.py                                                                *)
(***************************************************************************)
RepairConfigs ==
    [bug_pattern : BugPatterns, plain : BOOLEAN,
     batch_size : 1..MaxBatchSize, n_samples : 1..MaxSamples]

\* RepairReporter.add: one batch appended to the tree bug -> file -> hunk
add(rd, bug_id, hunk_id, batch) ==
    LET files0 == IF bug_id \in DOMAIN rd THEN rd[bug_id] ELSE <<>>
        f == hunk_id[1] + 1
        h == hunk_id[2] + 1
        files1 == IF f > Len(files0) THEN Append(files0, <<>>) ELSE files0
        hunks0 == files1[f]
        hunks1 == IF h > Len(hunks0) THEN Append(hunks0, <<>>) ELSE hunks0
        hunks2 == [hunks1 EXCEPT ![h] = Append(@, batch)]
        files2 == [files1 EXCEPT ![f] = hunks2]
    IN  [b \in DOMAIN rd \cup {bug_id} |-> IF b = bug_id THEN files2 ELSE rd[b]]

\* number of batches recorded for a hunk of a bug in the tree rd
n_recorded(rd, bug_id, hunk_id) ==
    IF bug_id \notin DOMAIN rd THEN 0
    ELSE IF hunk_id[1] + 1 > Len(rd[bug_id]) THEN 0
    ELSE IF hunk_id[2] + 1 > Len(rd[bug_id][hunk_id[1] + 1]) THEN 0
    ELSE Len(rd[bug_id][hunk_id[1] + 1][hunk_id[2] + 1])

bug_id_now == bugs_to_repair[bug_idx]

\* the Report of a run that is not looked at
RunnerUnused ==
    /\ plan = None
    /\ repair_result = <<>>
    /\ transformed_result = None
    /\ fresh = "stale"

\* a Repairer that is not looked at
RepairerUnused ==
    /\ config = None
    /\ hunk_only = FALSE
    /\ pc = "idle"
    /\ bugs_to_repair = <<>>
    /\ bug_idx = 0
    /\ k = 0
    /\ COUNTER = 0
    /\ analyzers = <<>>
    /\ active_connection_analyzer_pairs = <<>>
    /\ hunk_pos = <<0, 0, 0>>
    /\ exc = FALSE
    /\ result_dict = <<>>
    /\ saved = <<>>
    /\ resumed = FALSE
    /\ invoked = <<>>
    /\ synth_log = {}
    /\ synthesis_result_batch = None

\* no validate call was made
ValidateUnused ==
    /\ validation_result = None
    /\ vpc = "idle"
    /\ val_config = None
    /\ val_config_idx = 0
    /\ chunks = <<>>
    /\ running = {}
    /\ val_results = <<>>
    /\ val_log = {}

\* validate_patch was not called
ValidatePatchUnused ==
    /\ attempt = 0
    /\ vp_pc = "idle"
    /\ n_paths = 0
    /\ patch_file_idx = 0
    /\ checked_out = FALSE
    /\ parsed = <<>>
    /\ written = {}
    /\ unexpected_exception = 0
    /\ compiled = <<>>
    /\ tested = <<>>
    /\ vp_result = None

\* repair.py: the hunks of one buggy file removed: not used
HunkRemovalUnused ==
    /\ text_files = <<>>
    /\ buggy_text_file = 0
    /\ text_file = 0
    /\ changes = <<>>
    /\ n_removed = 0
    /\ lm_contexts = <<>>
    /\ loaded = <<>>
    /\ hpc = "idle"

\* d4j.py: BuggyFile.from_patch_file on one patched file: not used
FromPatchFileUnused ==
    /\ patch_file = <<>>
    /\ reversed = FALSE
    /\ lines_iter = 0
    /\ last_context = None
    /\ patch_changes = <<>>
    /\ fpc = "idle"

\* d4j.py: a Defects4J instance and its checkouts: not used
Defects4JUnused ==
    /\ metadata = <<>>
    /\ d4j = None
    /\ checkouts = <<>>
    /\ dpc = "idle"

\* runner.py: Runner.evaluate_generation: not used
EvaluateUnused ==
    /\ generation = None

\* repair.py: the channels to the analyzers and wait_until_all_analyzers_free: not used
WaitUnused ==
    /\ realm_conns = 0
    /\ n_buggy_files = 0
    /\ batch_is_free = <<>>
    /\ elapsed = 0
    /\ conn_idx = 0
    /\ inbox = <<>>
    /\ outbox = <<>>
    /\ outstanding = <<>>
    /\ wpc = "idle"

\* runner.py: iter_files on the raw results of one bug: not used
IterFilesUnused ==
    /\ file_results = <<>>
    /\ yielded = <<>>
    /\ ipc = "unused"

RepairerInit ==
    /\ config \in RepairConfigs
    /\ hunk_only \in BOOLEAN
    /\ pc = "idle"
    /\ bugs_to_repair = <<>>
    /\ bug_idx = 0
    /\ k = 0
    /\ COUNTER = 0
    /\ analyzers = <<>>
    /\ active_connection_analyzer_pairs = <<>>
    /\ hunk_pos = <<0, 0, 0>>
    /\ exc = FALSE
    /\ result_dict = <<>>
    /\ saved = <<>>
    /\ resumed = FALSE
    /\ invoked = <<>>
    /\ synth_log = {}
    /\ synthesis_result_batch = None

InitRepair ==
    /\ RepairerInit
    /\ RunnerUnused
    /\ ValidateUnused
    /\ ValidatePatchUnused
    /\ HunkRemovalUnused
    /\ FromPatchFileUnused
    /\ Defects4JUnused
    /\ EvaluateUnused
    /\ WaitUnused
    /\ IterFilesUnused

\* mutant of selected_bugs: the exclusion of Lang-25 is forgotten
selected_bugs_with_lang25(pattern, only) ==
    LET bugs_considered == IF only THEN single_hunk_bugs ELSE all_bugs
    IN  {id \in bugs_considered : fullmatch(pattern, id)}

\* Repairer.repair, lines 126-136: the bugs selected for the sweep
selected_bugs(pattern, only) ==
    LET bugs_considered == IF only THEN single_hunk_bugs ELSE all_bugs
    IN  {id \in bugs_considered : fullmatch(pattern, id) /\ id # Lang25}

repair ==
    /\ pc = "idle"
    /\ bugs_to_repair' =
           SelectSeqBy(all_bug_ids, selected_bugs(config.bug_pattern, hunk_only))
    /\ bug_idx' = 1
    /\ pc' = "loop"
    /\ UNCHANGED <<config, hunk_only, k, COUNTER, analyzers,
                   active_connection_analyzer_pairs, hunk_pos, exc, result_dict,
                   saved, resumed, invoked, synth_log>>
    /\ UNCHANGED <<synthesis_result_batch, notRepairVars>>

\* the for loop of Repairer.repair calls repair_bug for the next bug
repair_bug ==
    /\ pc = "loop"
    /\ bug_idx <= Len(bugs_to_repair)
    /\ invoked' = Append(invoked, bug_id_now)
    /\ pc' = "checkout"
    /\ UNCHANGED <<config, hunk_only, bugs_to_repair, bug_idx, k, COUNTER,
                   analyzers, active_connection_analyzer_pairs, hunk_pos, exc,
                   result_dict, saved, resumed, synth_log>>
    /\ UNCHANGED <<synthesis_result_batch, notRepairVars>>

\* the for loop of Repairer.repair is exhausted
repair_return ==
    /\ pc = "loop"
    /\ bug_idx > Len(bugs_to_repair)
    /\ pc' = "done"
    /\ UNCHANGED <<config, hunk_only, bugs_to_repair, bug_idx, k, COUNTER,
                   analyzers, active_connection_analyzer_pairs, hunk_pos, exc,
                   result_dict, saved, resumed, invoked, synth_log>>
    /\ UNCHANGED <<synthesis_result_batch, notRepairVars>>

\* repair_bug_no_cleanup, line 157
checkout_buggy ==
    /\ pc = "checkout"
    /\ pc' = IF config.plain THEN "load" ELSE "construct"
    /\ k' = 0
    /\ UNCHANGED <<config, hunk_only, bugs_to_repair, bug_idx, COUNTER,
                   analyzers, active_connection_analyzer_pairs, hunk_pos, exc,
                   result_dict, saved, resumed, invoked, synth_log>>
    /\ UNCHANGED <<synthesis_result_batch, notRepairVars>>

\* mutant of server_cmd_maker: the counter is stepped but every analyzer
\* gets the -data directory 0
server_cmd_maker_one_dir(counter) == [data |-> 0, counter |-> counter + 1]

\* Repairer.server_cmd_maker, lines 113-118: the -data directory is named
\* by next(utils.COUNTER), which hands out the counter's value and steps it
server_cmd_maker(counter) == [data |-> counter, counter |-> counter + 1]

\* lines 163-175: one JdtLspAnalyzer constructed, its -data directory drawn
\* from the counter by server_cmd_maker
construct_analyzer ==
    /\ pc = "construct"
    /\ k < config.batch_size
    /\ analyzers' = Append(analyzers,
           [data |-> server_cmd_maker(COUNTER).data, bug |-> bug_id_now,
            state |-> "constructed", stop_sent |-> FALSE, joined |-> FALSE])
    /\ COUNTER' = server_cmd_maker(COUNTER).counter
    /\ k' = k + 1
    /\ pc' = IF k + 1 = config.batch_size THEN "start" ELSE "construct"
    /\ UNCHANGED <<config, hunk_only, bugs_to_repair, bug_idx,
                   active_connection_analyzer_pairs, hunk_pos, exc, result_dict,
                   saved, resumed, invoked, synth_log>>
    /\ UNCHANGED <<synthesis_result_batch, notRepairVars>>

\* lines 177-179: the next analyzer of this bug is started and made active
start_analyzer ==
    /\ pc = "start"
    /\ k > 0
    /\ LET a == Len(analyzers) - k + 1
       IN  /\ analyzers' = [analyzers EXCEPT ![a].state = "started"]
           /\ active_connection_analyzer_pairs' =
                  Append(active_connection_analyzer_pairs, a)
    /\ k' = k - 1
    /\ pc' = IF k = 1 THEN "init" ELSE "start"
    /\ UNCHANGED <<config, hunk_only, bugs_to_repair, bug_idx, COUNTER,
                   hunk_pos, exc, result_dict, saved, resumed, invoked,
                   synth_log>>
    /\ UNCHANGED <<synthesis_result_batch, notRepairVars>>

\* lines 180-181: init is sent to every connection
send_init ==
    /\ pc = "init"
    /\ pc' = "load"
    /\ UNCHANGED <<config, hunk_only, bugs_to_repair, bug_idx, k, COUNTER,
                   analyzers, active_connection_analyzer_pairs, hunk_pos, exc,
                   result_dict, saved, resumed, invoked, synth_log>>
    /\ UNCHANGED <<synthesis_result_batch, notRepairVars>>

\* lines 191-204: the buggy files are loaded and, unless plain, opened in
\* every analyzer, and the orchestrator waits until the analyzers are free
load_and_open ==
    /\ pc = "load"
    /\ pc' = "hunk"
    /\ hunk_pos' = <<0, 0, 0>>
    /\ UNCHANGED <<config, hunk_only, bugs_to_repair, bug_idx, k, COUNTER,
                   analyzers, active_connection_analyzer_pairs, exc,
                   result_dict, saved, resumed, invoked, synth_log>>
    /\ UNCHANGED <<synthesis_result_batch, notRepairVars>>

\* lines 207-224: the next hunk, in the reversed order of the file's changes,
\* is removed from a copy of the file and a Synthesizer is built for it
next_hunk ==
    /\ pc = "hunk"
    /\ hunk_pos[1] < Len(buggy_files(bug_id_now))
    /\ pc' = "sample"
    /\ UNCHANGED <<config, hunk_only, bugs_to_repair, bug_idx, k, COUNTER,
                   analyzers, active_connection_analyzer_pairs, hunk_pos, exc,
                   result_dict, saved, resumed, invoked, synth_log>>
    /\ UNCHANGED <<synthesis_result_batch, notRepairVars>>

\* a loop that leaves the hunk after its first round
after_round_once(file_idx, change_idx, idx, n_changes) ==
    IF change_idx + 1 < n_changes
    THEN [hunk_pos |-> <<file_idx, change_idx + 1, 0>>, pc |-> "hunk"]
    ELSE [hunk_pos |-> <<file_idx + 1, 0, 0>>, pc |-> "hunk"]

\* lines 207, 216, 225: where the three loops go after a round: the next
\* round of the hunk, the next change of the file or the next file
after_round(file_idx, change_idx, idx, n_changes) ==
    IF idx + 1 < config.n_samples
    THEN [hunk_pos |-> <<file_idx, change_idx, idx + 1>>, pc |-> "sample"]
    ELSE IF change_idx + 1 < n_changes
    THEN [hunk_pos |-> <<file_idx, change_idx + 1, 0>>, pc |-> "hunk"]
    ELSE [hunk_pos |-> <<file_idx + 1, 0, 0>>, pc |-> "hunk"]

\* hunk_id of line 217
hunk_id_now == <<hunk_pos[1], hunk_pos[2]>>

\* BuggyFile.changes of the file at file_idx (0-based) of a bug: a change
\* is named by its file and its place (1-based) among the file's changes
changes_of(bug_id, file_idx) ==
    [j \in 1..buggy_files(bug_id)[file_idx + 1] |-> [file |-> file_idx, place |-> j]]

\* python's reversed()
reversed_list(s) == [i \in DOMAIN s |-> s[Len(s) - i + 1]]

\* line 216: the change that enumerate(reversed(buggy_file.changes)) pairs
\* with change_idx
enumerated_change(bug_id, file_idx, change_idx) ==
    reversed_list(changes_of(bug_id, file_idx))[change_idx + 1]

\* Bug.iter_hunks, d4j.py lines 104-108: for every file in order and every
\* change of it in order, the pair of their indices, the file and the
\* change
iter_hunks(bug_id) ==
    Flatten([i \in DOMAIN buggy_files(bug_id) |->
        [j \in DOMAIN changes_of(bug_id, i - 1) |->
            [hunk_id |-> <<i - 1, j - 1>>, buggy_file |-> i - 1,
             change |-> changes_of(bug_id, i - 1)[j]]]])

\* lines 225-236: synthesizer.synthesize() gives a batch of batch_size
\* results, as line 230 asserts
synthesize ==
    /\ pc = "sample"
    /\ synthesis_result_batch' = [size |-> config.batch_size, idx |-> hunk_pos[3]]
    /\ synth_log' = synth_log \cup
           {[resumed |-> resumed, bug |-> bug_id_now, hunk |-> hunk_id_now,
             change |-> enumerated_change(bug_id_now, hunk_pos[1], hunk_pos[2]),
             idx |-> hunk_pos[3],
             recorded |-> n_recorded(result_dict, bug_id_now, hunk_id_now)]}
    /\ pc' = "add"
    /\ UNCHANGED <<config, hunk_only, bugs_to_repair, bug_idx, k, COUNTER,
                   analyzers, active_connection_analyzer_pairs, hunk_pos, exc,
                   result_dict, saved, resumed, invoked>>
    /\ UNCHANGED notRepairVars

\* lines 237-241: reporter.add
reporter_add ==
    /\ pc = "add"
    /\ result_dict' = add(result_dict, bug_id_now, hunk_id_now,
                          synthesis_result_batch)
    /\ pc' = "save"
    /\ UNCHANGED <<config, hunk_only, bugs_to_repair, bug_idx, k, COUNTER,
                   analyzers, active_connection_analyzer_pairs, hunk_pos, exc,
                   saved, resumed, invoked, synth_log, synthesis_result_batch>>
    /\ UNCHANGED notRepairVars

\* line 242: reporter.save, and the loops go on
reporter_save ==
    /\ pc = "save"
    /\ saved' = result_dict
    /\ LET next == after_round(hunk_pos[1], hunk_pos[2], hunk_pos[3],
                               buggy_files(bug_id_now)[hunk_pos[1] + 1])
       IN  /\ hunk_pos' = next.hunk_pos
           /\ pc' = next.pc
    /\ UNCHANGED <<config, hunk_only, bugs_to_repair, bug_idx, k, COUNTER,
                   analyzers, active_connection_analyzer_pairs, exc,
                   result_dict, resumed, invoked, synth_log,
                   synthesis_result_batch>>
    /\ UNCHANGED notRepairVars

\* repair_bug_no_cleanup returns: the loop over the files is exhausted
no_cleanup_return ==
    /\ pc = "hunk"
    /\ hunk_pos[1] >= Len(buggy_files(bug_id_now))
    /\ pc' = "finally"
    /\ UNCHANGED <<config, hunk_only, bugs_to_repair, bug_idx, k, COUNTER,
                   analyzers, active_connection_analyzer_pairs, hunk_pos, exc,
                   result_dict, saved, resumed, invoked, synth_log>>
    /\ UNCHANGED <<synthesis_result_batch, notRepairVars>>

\* an error is raised somewhere in repair_bug_no_cleanup
raise_error ==
    /\ pc \in {"checkout", "construct", "start", "init", "load", "hunk", "sample",
              "add", "save"}
    /\ exc' = TRUE
    /\ pc' = "finally"
    /\ UNCHANGED <<config, hunk_only, bugs_to_repair, bug_idx, k, COUNTER,
                   analyzers, active_connection_analyzer_pairs, hunk_pos,
                   result_dict, saved, resumed, invoked, synth_log>>
    /\ UNCHANGED <<synthesis_result_batch, notRepairVars>>

\* Repairer.clean_up, lines 141-146: what it does to the analyzers
stopped_and_joined(as, active) ==
    [a \in DOMAIN as |->
        IF a \in Range(active)
        THEN [as[a] EXCEPT !.stop_sent = TRUE, !.joined = TRUE, !.state = "exited"]
        ELSE as[a]]

\* mutant of cleared: the active list is not cleared
cleared_not(active) == active

\* Repairer.clean_up, line 146
cleared(active) == <<>>

\* mutant of after_finally: the error is swallowed and the sweep goes on
after_finally_swallowed(raised) == "loop"

\* where repair_bug goes after its finally block: an error in flight
\* propagates out of repair_bug and out of the loop of Repairer.repair
after_finally(raised) == IF raised THEN "raised" ELSE "loop"

\* repair_bug, lines 151-153: the finally block
clean_up ==
    /\ pc = "finally"
    /\ analyzers' = stopped_and_joined(analyzers, active_connection_analyzer_pairs)
    /\ active_connection_analyzer_pairs' = cleared(active_connection_analyzer_pairs)
    /\ pc' = after_finally(exc)
    /\ bug_idx' = IF exc THEN bug_idx ELSE bug_idx + 1
    /\ UNCHANGED <<config, hunk_only, bugs_to_repair, k, COUNTER, hunk_pos, exc,
                   result_dict, saved, resumed, invoked, synth_log>>
    /\ UNCHANGED <<synthesis_result_batch, notRepairVars>>

\* the run is interrupted (or has ended) and the sweep is run again, in a new
\* process, on the results persisted so far
run_again ==
    /\ pc # "idle"
    /\ ~resumed
    /\ resumed' = TRUE
    /\ pc' = "idle"
    /\ result_dict' = saved
    /\ bugs_to_repair' = <<>>
    /\ bug_idx' = 0
    /\ k' = 0
    /\ COUNTER' = 0
    /\ analyzers' = <<>>
    /\ active_connection_analyzer_pairs' = <<>>
    /\ hunk_pos' = <<0, 0, 0>>
    /\ exc' = FALSE
    /\ invoked' = <<>>
    /\ synthesis_result_batch' = None
    /\ UNCHANGED <<config, hunk_only, saved, synth_log>>
    /\ UNCHANGED notRepairVars

NextRepair ==
    \/ repair
    \/ repair_bug
    \/ repair_return
    \/ checkout_buggy
    \/ construct_analyzer
    \/ start_analyzer
    \/ send_init
    \/ load_and_open
    \/ next_hunk
    \/ synthesize
    \/ reporter_add
    \/ reporter_save
    \/ no_cleanup_return
    \/ raise_error
    \/ clean_up
    \/ run_again

SpecRepair == InitRepair /\ [][NextRepair]_vars

(***************************************************************************)
(* Claims about the repair sweep (checked under SpecRepair).                *)
(***************************************************************************)
\* the position of a bug id in the candidate mapping's iteration order
position(bug_id) == CHOOSE i \in DOMAIN all_bug_ids : all_bug_ids[i] = bug_id

\* clean_up has run for every analyzer that was started
AllStartedStopped ==
    \A a \in DOMAIN analyzers :
        analyzers[a].state # "constructed" =>
            /\ analyzers[a].stop_sent
            /\ analyzers[a].joined
            /\ analyzers[a].state = "exited"

C2_NoWorkerLeaks ==
    pc \in {"loop", "raised", "done", "checkout"} =>
        /\ active_connection_analyzer_pairs = <<>>
        /\ AllStartedStopped

\* C2 witness: the repair of a bug raised between the start of its first and
\* of its second analyzer, and repair_bug has finished
C2_Witness ==
    /\ pc = "raised"
    /\ \E a \in DOMAIN analyzers : analyzers[a].state = "exited"
    /\ \E a \in DOMAIN analyzers : analyzers[a].state = "constructed"

\* C8 (as stated): a sweep run again after an interruption synthesizes no
\* (bug, hunk, round) combination that the results already hold, and when it
\* is done every hunk of every selected bug holds exactly n_samples batches.
C8_SkipsRecorded ==
    /\ \A s \in synth_log : s.recorded <= s.idx
    /\ pc = "done" =>
           \A i \in DOMAIN bugs_to_repair :
               \A f \in DOMAIN buggy_files(bugs_to_repair[i]) :
                   \A h \in 1..buggy_files(bugs_to_repair[i])[f] :
                       n_recorded(result_dict, bugs_to_repair[i], <<f - 1, h - 1>>)
                           = config.n_samples

\* C10: the per-bug repair is invoked only for bugs of the candidate set
\* (single_hunk_bugs when hunk_only, else all_bugs) whose whole id matches
\* the pattern, never for Lang-25, at most once per bug and in the order of
\* the candidate mapping.
C10_OnlySelectedBugs ==
    /\ \A i \in DOMAIN invoked :
           /\ invoked[i] \in (IF hunk_only THEN single_hunk_bugs ELSE all_bugs)
           /\ fullmatch(config.bug_pattern, invoked[i])
           /\ invoked[i] # Lang25
    /\ \A i, j \in DOMAIN invoked :
           i < j => position(invoked[i]) < position(invoked[j])

\* C10 witness: a whole sweep with pattern ".*" over all bugs has repaired
\* every bug but Lang-25
C10_Witness ==
    /\ pc = "done"
    /\ config.bug_pattern = <<".*">>
    /\ ~hunk_only
    /\ invoked = <<Chart11, Lang26, Math5>>

\* C24: in one process no two analyzers are launched with the same -data
\* directory, over all the bugs the process repairs: every construction
\* takes the value of the process-wide counter, which is then above every
\* directory handed out, and the counter never decreases while the process
\* lives, also from one bug to the next.
C24_DistinctDataDirs ==
    /\ [](/\ \A i, j \in DOMAIN analyzers :
                 analyzers[i].data = analyzers[j].data => i = j
          /\ \A i \in DOMAIN analyzers : analyzers[i].data < COUNTER)
    /\ [][resumed' = resumed =>
              /\ COUNTER' >= COUNTER
              /\ Len(analyzers') > Len(analyzers) =>
                     /\ analyzers'[Len(analyzers')].data = COUNTER
                     /\ COUNTER' > COUNTER]_vars

\* C24 witness: the process has constructed analyzers for a second bug, two
\* for each bug, and the analyzers of the first bug have exited
C24_Witness ==
    /\ Len(analyzers) = 4
    /\ analyzers[1].bug # analyzers[4].bug
    /\ analyzers[1].state = "exited"
    /\ analyzers[4].state = "constructed"
    /\ COUNTER = 4

\* the entry of iter_hunks for a change of a bug
hunk_of_change(bug_id, chg) ==
    CHOOSE h \in Range(iter_hunks(bug_id)) : h.change = chg

\* C26 (as stated): the hunk id under which the repair records the results
\* of a change is the pair that Bug.iter_hunks assigns to that change, for
\* every bug, also one with a file of more than one change.
C26_StableHunkIds ==
    \A s \in synth_log : hunk_of_change(s.bug, s.change).hunk_id = s.hunk

\* the batches recorded for a hunk of a bug in the tree rd, in order
batches_of(rd, bug_id, hunk_id) ==
    IF n_recorded(rd, bug_id, hunk_id) = 0 THEN <<>>
    ELSE rd[bug_id][hunk_id[1] + 1][hunk_id[2] + 1]

\* every batch of the tree rd
all_batches(rd) ==
    UNION { UNION { UNION { Range(rd[bug_id][f][h]) : h \in DOMAIN rd[bug_id][f] }
                    : f \in DOMAIN rd[bug_id] }
            : bug_id \in DOMAIN rd }

\* the hunks of a bug, as hunk ids
hunk_ids(bug_id) ==
    UNION { { <<f - 1, h - 1>> : h \in 1..buggy_files(bug_id)[f] }
            : f \in DOMAIN buggy_files(bug_id) }

\* the hunks whose rounds have all completed in this run: those of the bugs
\* repaired before the present one and, in the loops of the present bug,
\* those before the present hunk
completed_hunks ==
    UNION { { <<bugs_to_repair[i], h>> : h \in hunk_ids(bugs_to_repair[i]) }
            : i \in {j \in DOMAIN bugs_to_repair : j < bug_idx} }
    \cup IF pc \in {"hunk", "sample", "add", "save"}
         THEN { <<bug_id_now, h>> : h \in
                    {h2 \in hunk_ids(bug_id_now) :
                        \/ h2[1] < hunk_pos[1]
                        \/ h2[1] = hunk_pos[1] /\ h2[2] < hunk_pos[2]} }
         ELSE {}

\* the number of batches a hunk had when this run synthesized its round 0
recorded_before(bug_id, hunk_id) ==
    (CHOOSE s \in synth_log :
        s.resumed = resumed /\ s.bug = bug_id /\ s.hunk = hunk_id /\ s.idx = 0)
    .recorded

Success(text) == [ok |-> TRUE, hunk |-> text]
NoHunk == [ok |-> FALSE, hunk |-> ""]

\* the outcomes a synthesis may have in the model
Results == {Success("a"), Success("aa"), NoHunk}

\* the benchmarks a sweep is run on: the bugs in iteration order, each with
\* the number of changes of each of its buggy files
Benchmarks ==
    { << [id |-> Chart11, files |-> <<1>>], [id |-> Math5, files |-> <<1>>] >>,
      << [id |-> Lang26, files |-> <<2>>] >>,
      << [id |-> Lang26, files |-> <<1, 1>>] >> }

\* a sweep: its bugs, the rounds per hunk and the results per round
Plans ==
    { p \in [bugs : Benchmarks, n_samples : 1..MaxSamples,
             batch_size : 1..MaxBatchSize] :
        p.n_samples * p.batch_size <= MaxSamples }

RECURSIVE Join(_)
\* "".join(texts)
Join(texts) == IF texts = <<>> THEN "" ELSE Head(texts) \o Join(Tail(texts))

\* SynthesisResultBatch.to_average_results: one averaged result for every
\* result of the batch
to_average_results(batch) == batch

\* iter_files, lines 245-262: for every file and every hunk of it, the
\* flattened results of the hunk's batches
groups_of(files) ==
    [f \in DOMAIN files |->
        [h \in DOMAIN files[f] |->
            Flatten([b \in DOMAIN files[f][h] |->
                        to_average_results(files[f][h][b])])]]

\* mutant of groups_ok: the hunks of a file may differ in their numbers of
\* results
groups_ok_uneven(groups) == \A f \in DOMAIN groups : Len(groups[f]) > 0

\* iter_files, lines 263-266: every file has a hunk and the hunks of a file
\* have the same number of results
groups_ok(groups) ==
    \A f \in DOMAIN groups :
        /\ Len(groups[f]) > 0
        /\ \A h1, h2 \in DOMAIN groups[f] : Len(groups[f][h1]) = Len(groups[f][h2])

\* what zip yields: as many items as the shortest of its arguments
zip_len(lens) ==
    IF lens = {} THEN 0 ELSE CHOOSE n \in lens : \A m \in lens : n <= m

\* iter_files, lines 268-282: the candidate patches, one per rank: for
\* every file, the result of that rank of every hunk of the file
patches_of(groups) ==
    LET n == zip_len({zip_len({Len(groups[f][h]) : h \in DOMAIN groups[f]})
                         : f \in DOMAIN groups})
    IN  [r \in 1..n |-> [f \in DOMAIN groups |->
                            [h \in DOMAIN groups[f] |-> groups[f][h][r]]]]

\* iter_files: its assertions hold or not, and the patches it yields
iter_files(files) ==
    LET groups == groups_of(files)
    IN  IF groups_ok(groups)
        THEN [ok |-> TRUE, patches |-> patches_of(groups)]
        ELSE [ok |-> FALSE, patches |-> <<>>]

\* the results of all hunks of all files of a candidate patch, in order
hunks_of(patch) == Flatten(patch)

\* AvgPatch.is_broken: a hunk of the patch has no synthesized text
is_broken(patch) == \E i \in DOMAIN hunks_of(patch) : ~hunks_of(patch)[i].ok

\* Runner.transform, lines 79-83
concat_hunk_str(patch) ==
    Join([i \in DOMAIN hunks_of(patch) |-> hunks_of(patch)[i].hunk])

\* mutant of already_processed: no rank is skipped
already_processed_never(patch_idx, patches) == FALSE

\* Runner.transform, lines 72-73: ranks already transformed are skipped
already_processed(patch_idx, patches) == patch_idx < Len(patches)

\* mutant of seen_after: broken patches are compared and remembered too
seen_after_broken_too(appeared, patch) == appeared \cup {concat_hunk_str(patch)}

\* Runner.transform, lines 74-88: the seen-set after a new patch
seen_after(appeared, patch) ==
    IF is_broken(patch) THEN appeared ELSE appeared \cup {concat_hunk_str(patch)}

\* Runner.transform, lines 74-88: the duplicate flag of a new patch
duplicate_in(appeared, patch) ==
    IF is_broken(patch) THEN FALSE ELSE concat_hunk_str(patch) \in appeared

RECURSIVE transform_bug(_, _, _, _)
\* Runner.transform, lines 71-89: the loop over the ranks of one bug, from
\* rank patch_idx (0-based) on; acc is <<patches, appeared>>
transform_bug(new, patch_idx, patches, appeared) ==
    IF patch_idx >= Len(new) THEN <<patches, appeared>>
    ELSE IF already_processed(patch_idx, patches)
    THEN transform_bug(new, patch_idx + 1, patches, appeared)
    ELSE LET patch == new[patch_idx + 1]
         IN  transform_bug(new, patch_idx + 1,
                 Append(patches, [file_patches |-> patch,
                                  is_duplicate |-> duplicate_in(appeared, patch)]),
                 seen_after(appeared, patch))

\* dict.setdefault
setdefault(d, key, default) ==
    IF key \in DOMAIN d THEN d ELSE [x \in DOMAIN d \cup {key} |->
                                        IF x = key THEN default ELSE d[x]]

RECURSIVE transform_from(_, _, _)
\* Runner.transform, lines 68-90: the loop over the bugs of the raw results,
\* in their order; an assertion of iter_files that fails ends it, after the
\* setdefault calls of lines 69-70
transform_from(raw, bug_ids, t) ==
    IF bug_ids = <<>> THEN [t EXCEPT !.raised = FALSE]
    ELSE LET bug_id == Head(bug_ids)
             rd == setdefault(t.result_dict, bug_id, <<>>)
             aa == setdefault(t.all_appeared, bug_id, {})
             it == iter_files(raw[bug_id])
             done == transform_bug(it.patches, 0, rd[bug_id], aa[bug_id])
         IN  IF ~it.ok
             THEN [raised |-> TRUE, result_dict |-> rd, all_appeared |-> aa]
             ELSE transform_from(raw, Tail(bug_ids),
                      [raised |-> FALSE,
                       result_dict |-> [rd EXCEPT ![bug_id] = done[1]],
                       all_appeared |-> [aa EXCEPT ![bug_id] = done[2]]])

\* the bug ids of the raw results, in the order of insertion
raw_bug_ids(raw, bugs) ==
    SelectSeqBy([i \in DOMAIN bugs |-> bugs[i].id], DOMAIN raw)

\* Runner.transform, lines 64-90: the transformed result after the call
\* (raised: an assertion of iter_files failed and the call ended there)
transformed(raw, bugs, before) ==
    transform_from(raw, raw_bug_ids(raw, bugs),
        IF before = None
        THEN [raised |-> FALSE, result_dict |-> <<>>, all_appeared |-> <<>>]
        ELSE before)

\* the slots (bug, hunk id) of a sweep, in the order the sweep fills them
slots(bugs) ==
    Flatten([i \in DOMAIN bugs |->
        Flatten([f \in DOMAIN bugs[i].files |->
            [h \in 1..bugs[i].files[f] |->
                [bug |-> bugs[i].id, hunk_id |-> <<f - 1, h - 1>>]]])])

\* the slots of the plan that still lack a round
open_slots ==
    SelectSeq(slots(plan.bugs),
        LAMBDA sl : n_recorded(repair_result, sl.bug, sl.hunk_id) < plan.n_samples)

InitTransform ==
    /\ plan \in Plans
    /\ repair_result = <<>>
    /\ transformed_result = None
    /\ fresh = "stale"
    /\ RepairerUnused
    /\ ValidateUnused
    /\ ValidatePatchUnused
    /\ HunkRemovalUnused
    /\ FromPatchFileUnused
    /\ Defects4JUnused
    /\ EvaluateUnused
    /\ WaitUnused
    /\ IterFilesUnused

\* the repair sweep records the batch of its next round (reporter.add)
add_batch ==
    /\ open_slots # <<>>
    /\ \E batch \in [1..plan.batch_size -> Results] :
           repair_result' = add(repair_result, Head(open_slots).bug,
                                Head(open_slots).hunk_id, batch)
    /\ fresh' = "stale"
    /\ UNCHANGED <<plan, transformed_result>>
    /\ UNCHANGED notRunnerVars

\* Runner.transform
transform ==
    /\ transformed_result' = transformed(repair_result, plan.bugs, transformed_result)
    /\ fresh' = IF fresh = "stale" THEN "once" ELSE "twice"
    /\ UNCHANGED <<plan, repair_result>>
    /\ UNCHANGED notRunnerVars

NextTransform ==
    \/ add_batch
    \/ transform

SpecTransform == InitTransform /\ [][NextTransform]_vars

(***************************************************************************)
(* Claims about Runner.transform (checked under SpecTransform).             *)
(***************************************************************************)
\* the transformed patches of a bug, and its seen-set
patches_for(bug_id) == transformed_result.result_dict[bug_id]
appeared_for(bug_id) == transformed_result.all_appeared[bug_id]

\* C5: for every bug of the transformed result, a patch is marked duplicate
\* exactly when it is not broken and an earlier non-broken patch of the bug
\* has the same concatenated hunk text (so the first patch with a text is not
\* duplicate, every later one is, and a broken patch never is), and the
\* bug's seen-set is exactly the set of the concatenated texts of its
\* non-broken patches.
C5_Deduplication ==
    transformed_result # None =>
        \A bug_id \in DOMAIN transformed_result.result_dict :
            LET ps == patches_for(bug_id)
                text(i) == concat_hunk_str(ps[i].file_patches)
                broken(i) == is_broken(ps[i].file_patches)
            IN  /\ \A i \in DOMAIN ps :
                       ps[i].is_duplicate <=>
                           /\ ~broken(i)
                           /\ \E j \in 1..(i - 1) : ~broken(j) /\ text(j) = text(i)
                /\ appeared_for(bug_id) = {text(i) : i \in {n \in DOMAIN ps : ~broken(n)}}

\* C5 witness: transform() has run; a bug has a patch marked duplicate and a
\* bug has a broken patch
C5_Witness ==
    /\ fresh # "stale"
    /\ transformed_result # None
    /\ \E bug_id \in DOMAIN transformed_result.result_dict :
           \E i \in DOMAIN patches_for(bug_id) : patches_for(bug_id)[i].is_duplicate
    /\ \E bug_id \in DOMAIN transformed_result.result_dict :
           \E i \in DOMAIN patches_for(bug_id) :
               is_broken(patches_for(bug_id)[i].file_patches)

\* C6: a transform() call made when transform() has already run on the same
\* raw results leaves the transformed result as it is: no patch appended,
\* no duplicate flag and no seen-set changed.
C6_Idempotent ==
    [][(fresh # "stale" /\ transform) => transformed_result' = transformed_result]_vars

\* C6 witness: transform() has run twice in succession on raw results that
\* hold a duplicate patch
C6_Witness ==
    /\ fresh = "twice"
    /\ ~transformed_result.raised
    /\ \E bug_id \in DOMAIN transformed_result.result_dict :
           \E i \in DOMAIN patches_for(bug_id) : patches_for(bug_id)[i].is_duplicate

\* C7 (as stated): when the batches of the whole sweep are recorded and
\* transform() has run since, whatever transform() calls were made after
\* earlier prefixes of the batches, the transformed result is the one a
\* single transform() of the complete raw results gives.
C7_Resumable ==
    (fresh # "stale" /\ open_slots = <<>>) =>
        transformed_result = transformed(repair_result, plan.bugs, None)

\* the synthesized texts of a candidate patch, hunk by hunk
hunk_texts(patch) == [i \in DOMAIN hunks_of(patch) |-> hunks_of(patch)[i].hunk]

\* C27 (as stated): a patch is marked duplicate only if an earlier
\* non-broken patch of the same bug has the same synthesized text hunk by
\* hunk; two patches that differ in the text of a hunk are never collapsed
\* into one.
C27_DuplicateOnlyIfSameHunks ==
    transformed_result # None =>
        \A bug_id \in DOMAIN transformed_result.result_dict :
            LET ps == patches_for(bug_id)
            IN  \A i \in DOMAIN ps :
                    ps[i].is_duplicate =>
                        \E j \in 1..(i - 1) :
                            /\ ~is_broken(ps[j].file_patches)
                            /\ hunk_texts(ps[j].file_patches)
                                   = hunk_texts(ps[i].file_patches)

(***************************************************************************)
(* runner.py: Runner.validate.  The raw results are those of a finished     *)
(* sweep over two bugs of one file and a bug of two files; a work item is   *)
(* a bug id and a 0-based patch index.                                      *)
(***************************************************************************)
Chart1 == <<"Chart", "-", "1">>

ValidateBugs ==
    << [id |-> Chart1, files |-> <<1>>],
       [id |-> Lang26, files |-> <<1, 1>>],
       [id |-> Chart11, files |-> <<1>>] >>

\* the results of the rounds of a hunk, rank by rank
SweepRanks ==
    { <<Success("a"), Success("aa")>>,
      <<Success("a"), Success("a")>>,
      <<NoHunk, Success("a")>> }

\* the tree of a file of one hunk: a batch of one result for every rank
one_hunk_file(ranks) == << [r \in DOMAIN ranks |-> <<ranks[r]>>] >>

\* the raw results of the finished sweeps
ValidateRaws ==
    { [bug_id \in {Chart1, Chart11, Lang26} |->
          IF bug_id = Chart1 THEN <<one_hunk_file(r1)>>
          ELSE IF bug_id = Chart11 THEN <<one_hunk_file(r2)>>
          ELSE <<one_hunk_file(<<Success("a"), Success("aa")>>),
                 one_hunk_file(<<Success("a"), Success("aa")>>)>>]
      : r1 \in SweepRanks, r2 \in SweepRanks }

ValidatePatterns == { <<".*">>, <<"Chart", "-", ".*">> }

ValidationConfigs == [n_cores : 1..MaxCores, bug_pattern : ValidatePatterns]

\* Outcome, the classification validate_patch returns
Outcome == {"ParseError", "CompilationError", "TestingError", "Success"}

\* the outcomes the workers of the model return: Runner.validate records an
\* outcome and never looks at it
WorkerOutcomes == {"CompilationError", "Success"}

\* report.validation_result.validation_configs, empty before the first call
validation_configs ==
    IF validation_result = None THEN <<>> ELSE validation_result.validation_configs

\* report.validation_result.result_dict, empty before the first call
validation_result_dict ==
    IF validation_result = None THEN <<>> ELSE validation_result.result_dict

\* the patch of a work item
patch_of(tr, item) == tr.result_dict[item.bug_id][item.patch_idx + 1]

\* mutant of is_unvalidated: a recorded rank is selected again
is_unvalidated_again(patch, patch_idx, validated_patches) ==
    /\ ~patch.is_duplicate
    /\ ~is_broken(patch.file_patches)

\* Runner.validate, lines 123-127: the ranks a call selects
is_unvalidated(patch, patch_idx, validated_patches) ==
    /\ ~patch.is_duplicate
    /\ ~is_broken(patch.file_patches)
    /\ patch_idx \notin DOMAIN validated_patches

\* Runner.validate, lines 122-128: the pending items of a bug, by rank
pending_of(bug_id, patches, validated_patches) ==
    SelectSeq([i \in DOMAIN patches |-> [bug_id |-> bug_id, patch_idx |-> i - 1]],
        LAMBDA it : is_unvalidated(patches[it.patch_idx + 1], it.patch_idx,
                                   validated_patches))

\* Runner.validate, lines 117-119: the bugs of the transformed result that
\* the pattern matches, in the order of the mapping
matching_bugs(pattern, tr) ==
    SelectSeq(SelectSeqBy(raw_bug_ids(repair_result, plan.bugs), DOMAIN tr.result_dict),
        LAMBDA bug_id : fullmatch(pattern, bug_id))

RECURSIVE setdefault_all(_, _, _)
\* Runner.validate, line 120, for every matching bug
setdefault_all(d, keys, default) ==
    IF keys = <<>> THEN d
    ELSE setdefault_all(setdefault(d, Head(keys), default), Tail(keys), default)

\* Runner.validate, lines 116-128: one list of pending items per matching bug
unvalidated_analysis_results(pattern, tr, vrd) ==
    LET bug_ids == matching_bugs(pattern, tr)
    IN  [i \in DOMAIN bug_ids |->
            pending_of(bug_ids[i], tr.result_dict[bug_ids[i]], vrd[bug_ids[i]])]

\* the length of the longest of the lists
max_len(lists) ==
    IF lists = <<>> THEN 0
    ELSE CHOOSE n \in {Len(lists[i]) : i \in DOMAIN lists} :
             \A i \in DOMAIN lists : Len(lists[i]) <= n

\* mutant of zip_longest: one round that holds every item of every list
zip_longest_chained(lists) == << Flatten(lists) >>

\* itertools.zip_longest(*lists): the r-th round holds the r-th item of
\* every list, None where the list is shorter
zip_longest(lists) ==
    [r \in 1..max_len(lists) |->
        [i \in DOMAIN lists |-> IF r <= Len(lists[i]) THEN lists[i][r] ELSE None]]

RECURSIVE chunked(_, _)
\* utils.chunked: groups of n items, the last one may be shorter
chunked(n, items) ==
    IF items = <<>> THEN <<>>
    ELSE IF Len(items) <= n THEN <<items>>
    ELSE <<SubSeq(items, 1, n)>> \o chunked(n, SubSeq(items, n + 1, Len(items)))

\* Runner.validate, lines 130-132: the chunks of a call, in order
result_batches(n_cores, lists) ==
    LET rounds == zip_longest(lists)
    IN  Flatten([r \in DOMAIN rounds |->
            chunked(n_cores, SelectSeq(rounds[r], LAMBDA x : x # None))])

\* Runner.validate, line 133
distinct_bug_ids(result_batch) ==
    Len(result_batch) = Cardinality({result_batch[i].bug_id : i \in DOMAIN result_batch})

\* validate_patch, lines 188-193: the files of the patch have one path
one_target_path(tr, item) == Len(patch_of(tr, item).file_patches) = 1

\* the number of validate calls made so far
n_calls == Len(validation_configs)

InitValidate ==
    /\ plan = [bugs |-> ValidateBugs, n_samples |-> 2, batch_size |-> 1]
    /\ repair_result \in ValidateRaws
    /\ transformed_result = None
    /\ fresh = "stale"
    /\ ValidateUnused
    /\ RepairerUnused
    /\ ValidatePatchUnused
    /\ HunkRemovalUnused
    /\ FromPatchFileUnused
    /\ Defects4JUnused
    /\ EvaluateUnused
    /\ WaitUnused
    /\ IterFilesUnused

\* Runner.validate, lines 102-128: the transformation if none was made, the
\* config appended, and the chunks of the call laid out
validate_begin(cfg) ==
    /\ vpc \in {"idle", "returned", "raised"}
    /\ n_calls < MaxCalls
    /\ LET tr == IF transformed_result = None
                 THEN transformed(repair_result, plan.bugs, None)
                 ELSE transformed_result
           vrd == setdefault_all(validation_result_dict,
                                 matching_bugs(cfg.bug_pattern, tr), <<>>)
       IN  /\ transformed_result' = tr
           /\ IF transformed_result = None /\ tr.raised
              THEN /\ vpc' = "raised"
                   /\ UNCHANGED <<validation_result, val_config, val_config_idx, chunks>>
              ELSE /\ validation_result' =
                          [validation_configs |-> Append(validation_configs, cfg),
                           result_dict |-> vrd]
                   /\ val_config' = cfg
                   /\ val_config_idx' = Len(validation_configs) + 1 - 1
                   /\ chunks' = result_batches(cfg.n_cores,
                          unvalidated_analysis_results(cfg.bug_pattern, tr, vrd))
                   /\ vpc' = "chunks"
    /\ UNCHANGED <<running, val_results, val_log>>
    /\ UNCHANGED notValidateVars

\* Runner.validate, lines 132-139: the next chunk is handed to the pool, one
\* worker per item
chunk_start ==
    /\ vpc = "chunks"
    /\ chunks # <<>>
    /\ IF distinct_bug_ids(Head(chunks))
       THEN /\ running' = Range(Head(chunks))
            /\ vpc' = "parallel"
            /\ UNCHANGED chunks
       ELSE /\ vpc' = "raised"
            /\ chunks' = <<>>
            /\ UNCHANGED running
    /\ UNCHANGED <<validation_result, val_config, val_config_idx, val_results,
                   val_log, transformed_result>>
    /\ UNCHANGED notValidateVars

\* a worker's validate_patch returns its result
patch_done ==
    /\ vpc = "parallel"
    /\ \E item \in running, outcome \in WorkerOutcomes :
           /\ one_target_path(transformed_result, item)
           /\ running' = running \ {item}
           /\ val_results' = [x \in DOMAIN val_results \cup {item} |->
                                 IF x = item THEN outcome ELSE val_results[x]]
           /\ val_log' = val_log \cup
                  {[bug_id |-> item.bug_id, patch_idx |-> item.patch_idx,
                    call |-> n_calls, outcome |-> outcome]}
    /\ UNCHANGED <<validation_result, vpc, val_config, val_config_idx, chunks,
                   transformed_result>>
    /\ UNCHANGED notValidateVars

\* validate_patch, line 193: a worker's assertion fails, the pool raises it
\* in Runner.validate and the results of the chunk are not recorded
patch_raise ==
    /\ vpc = "parallel"
    /\ \E item \in running : ~one_target_path(transformed_result, item)
    /\ running' = {}
    /\ val_results' = <<>>
    /\ chunks' = <<>>
    /\ vpc' = "raised"
    /\ UNCHANGED <<validation_result, val_config, val_config_idx, val_log,
                   transformed_result>>
    /\ UNCHANGED notValidateVars

RECURSIVE recorded(_, _, _, _)
\* Runner.validate, lines 140-146: the results of a chunk recorded in order;
\* ok is FALSE when an assertion of lines 141-142 fails
recorded(acc, result_batch, results, idx) ==
    IF result_batch = <<>> \/ ~acc.ok THEN acc
    ELSE LET item == Head(result_batch)
             d == acc.result_dict
         IN  IF item.bug_id \notin DOMAIN d
                \/ item.patch_idx \in DOMAIN d[item.bug_id]
             THEN [acc EXCEPT !.ok = FALSE]
             ELSE recorded(
                      [ok |-> TRUE,
                       result_dict |-> [d EXCEPT ![item.bug_id] =
                           [x \in DOMAIN @ \cup {item.patch_idx} |->
                               IF x = item.patch_idx THEN <<idx, results[item]>>
                               ELSE @[x]]]],
                      Tail(result_batch), results, idx)

\* Runner.validate, lines 140-147: all workers of the chunk are done, their
\* results are recorded and the report is saved
chunk_record ==
    /\ vpc = "parallel"
    /\ running = {}
    /\ LET rec == recorded([ok |-> TRUE, result_dict |-> validation_result_dict],
                           Head(chunks), val_results, val_config_idx)
       IN  /\ validation_result' = [validation_result EXCEPT !.result_dict = rec.result_dict]
           /\ IF rec.ok
              THEN vpc' = "chunks" /\ chunks' = Tail(chunks)
              ELSE vpc' = "raised" /\ chunks' = <<>>
    /\ val_results' = <<>>
    /\ UNCHANGED <<val_config, val_config_idx, running, val_log, transformed_result>>
    /\ UNCHANGED notValidateVars

\* Runner.validate: no chunk is left, the call returns
validate_return ==
    /\ vpc = "chunks"
    /\ chunks = <<>>
    /\ vpc' = "returned"
    /\ UNCHANGED <<validation_result, val_config, val_config_idx, chunks, running,
                   val_results, val_log, transformed_result>>
    /\ UNCHANGED notValidateVars

NextValidate ==
    \/ \E cfg \in ValidationConfigs : validate_begin(cfg)
    \/ chunk_start
    \/ patch_done
    \/ patch_raise
    \/ chunk_record
    \/ validate_return

SpecValidate == InitValidate /\ [][NextValidate]_vars

(***************************************************************************)
(* Claims about Runner.validate (checked under SpecValidate).               *)
(***************************************************************************)
\* the items of the chunks that are laid out and not recorded yet
laid_out == UNION {Range(chunks[c]) : c \in DOMAIN chunks}

\* C3: every chunk of a validate call has at least one and at most n_cores
\* items, of pairwise distinct bugs; the items that run at one time are
\* items of the one chunk at the head of the remaining chunks, so no two
\* of them are of the same bug and no more than n_cores of them run.
C3_NoSameBugConcurrently ==
    /\ \A c \in DOMAIN chunks :
           /\ Len(chunks[c]) \in 1..val_config.n_cores
           /\ \A i, j \in DOMAIN chunks[c] :
                  chunks[c][i].bug_id = chunks[c][j].bug_id => i = j
    /\ running # {} =>
           /\ vpc = "parallel"
           /\ running \subseteq Range(Head(chunks))
           /\ Cardinality(running) <= val_config.n_cores
           /\ \A a, b \in running : a.bug_id = b.bug_id => a = b

\* C3 witness: two workers run at one time, and an item of the bug of one of
\* them waits in a later chunk
C3_Witness ==
    /\ vpc = "parallel"
    /\ Cardinality(running) = 2
    /\ \E c \in 2..Len(chunks) : \E i \in DOMAIN chunks[c] :
           \E a \in running : a.bug_id = chunks[c][i].bug_id

\* the recorded entries are those of the non-duplicate, non-broken patches
\* of bugs the config of the entry matches, each the result of a run made
\* under that config and of no later run
C4_Entries ==
    \A bug_id \in DOMAIN validation_result_dict :
        \A patch_idx \in DOMAIN validation_result_dict[bug_id] :
            LET entry == validation_result_dict[bug_id][patch_idx]
                patch == transformed_result.result_dict[bug_id][patch_idx + 1]
            IN  /\ entry[1] \in 0..(n_calls - 1)
                /\ fullmatch(validation_configs[entry[1] + 1].bug_pattern, bug_id)
                /\ ~patch.is_duplicate
                /\ ~is_broken(patch.file_patches)
                /\ [bug_id |-> bug_id, patch_idx |-> patch_idx,
                    call |-> entry[1] + 1, outcome |-> entry[2]] \in val_log
                /\ \A l \in val_log :
                       (l.bug_id = bug_id /\ l.patch_idx = patch_idx)
                           => l.call <= entry[1] + 1

\* no item that waits or runs has a recorded entry
C4_NotAgain ==
    \A item \in laid_out \cup running :
        item.patch_idx \notin DOMAIN validation_result_dict[item.bug_id]

\* after a call that returned, every non-duplicate, non-broken patch of
\* every bug its pattern matches has an entry
C4_Complete ==
    vpc = "returned" =>
        \A bug_id \in DOMAIN transformed_result.result_dict :
            fullmatch(val_config.bug_pattern, bug_id) =>
                \A i \in DOMAIN patches_for(bug_id) :
                    (~patches_for(bug_id)[i].is_duplicate
                     /\ ~is_broken(patches_for(bug_id)[i].file_patches))
                        => /\ bug_id \in DOMAIN validation_result_dict
                           /\ (i - 1) \in DOMAIN validation_result_dict[bug_id]

\* a step keeps every recorded entry as it is
C4_Kept ==
    \A bug_id \in DOMAIN validation_result_dict :
        \A patch_idx \in DOMAIN validation_result_dict[bug_id] :
            /\ validation_result' # None
            /\ bug_id \in DOMAIN validation_result'.result_dict
            /\ patch_idx \in DOMAIN validation_result'.result_dict[bug_id]
            /\ validation_result'.result_dict[bug_id][patch_idx]
                   = validation_result_dict[bug_id][patch_idx]

RULE == "=========="

\* how javalang.parse.parse may end on the text of a file
ParseEnds == {"parsed", "JavaSyntaxError", "LexerError", "Exception"}

\* what d4j.compile may return: by its assertion the error output holds
\* "FAIL" exactly when the compilation failed
CompileReturns ==
    { [success |-> TRUE, stdout |-> out, stderr |-> "OK"] : out \in {"", "javac"} }
    \cup { [success |-> FALSE, stdout |-> "", stderr |-> "FAIL"] }

\* what a test run may return: by the assertion of test_with_option the
\* output starts with "Failing tests: 0" exactly when no test failed
TestReturns ==
    { [success |-> TRUE, stdout |-> "Failing tests: 0", stderr |-> err]
          : err \in {"", "junit"} }
    \cup { [success |-> FALSE, stdout |-> "Failing tests: 1", stderr |-> "junit"] }

\* subprocess.TimeoutExpired
TimeoutExpired == [TimeoutExpired |-> TRUE]

\* how a test run may end: it returns, or subprocess.TimeoutExpired is raised
TestEnds == TestReturns \cup {TimeoutExpired}

\* validate_patch, line 203: the result of a syntax or lexer error e
parse_error_result(e) ==
    [outcome |-> "ParseError", stdout |-> "", stderr |-> e]

\* validate_patch, lines 213-215
compilation_error_result(comp) ==
    [outcome |-> "CompilationError", stdout |-> comp.stdout, stderr |-> comp.stderr]

\* mutant of test_outcome: a failed test run counts as a success
test_outcome_success(val_success) == "Success"

\* validate_patch, line 219
test_outcome(val_success) == IF val_success THEN "Success" ELSE "TestingError"

\* validate_patch, lines 218-223
tested_result(comp, val) ==
    [outcome |-> test_outcome(val.success),
     stdout |-> comp.stdout \o RULE \o val.stdout,
     stderr |-> comp.stderr \o RULE \o val.stderr]

\* validate_patch, lines 224-230
timeout_result(comp) ==
    [outcome |-> "TestingError",
     stdout |-> comp.stdout \o RULE \o "Timeout",
     stderr |-> comp.stderr \o RULE \o "Timeout"]

InitValidatePatch ==
    /\ attempt = 1
    /\ vp_pc = "idle"
    /\ n_paths \in 1..MaxFiles
    /\ patch_file_idx = 0
    /\ checked_out = FALSE
    /\ parsed = <<>>
    /\ written = {}
    /\ unexpected_exception = 0
    /\ compiled = <<>>
    /\ tested = <<>>
    /\ vp_result = None
    /\ RepairerUnused
    /\ RunnerUnused
    /\ ValidateUnused
    /\ HunkRemovalUnused
    /\ FromPatchFileUnused
    /\ Defects4JUnused
    /\ EvaluateUnused
    /\ WaitUnused
    /\ IterFilesUnused

\* validate_patch, lines 181-195: the assertions on the patch, then the
\* checkout of the fixed version
vp_begin ==
    /\ vp_pc = "idle"
    /\ IF n_paths = 1
       THEN /\ checked_out' = TRUE
            /\ patch_file_idx' = 1
            /\ vp_pc' = "parse"
       ELSE /\ vp_pc' = "raised"
            /\ UNCHANGED <<checked_out, patch_file_idx>>
    /\ UNCHANGED <<attempt, n_paths, parsed, written, unexpected_exception, compiled,
                   tested, vp_result>>
    /\ UNCHANGED notVPVars

\* mutant of vp_parse: an unexpected exception ends the validation like a
\* syntax error
vp_parse_strict ==
    /\ vp_pc = "parse"
    /\ \E end \in ParseEnds :
           /\ parsed' = Append(parsed, end)
           /\ IF end # "parsed"
              THEN /\ vp_result' = parse_error_result(end)
                   /\ vp_pc' = "returned"
                   /\ UNCHANGED <<written, unexpected_exception, patch_file_idx>>
              ELSE /\ written' = written \cup {patch_file_idx}
                   /\ patch_file_idx' = patch_file_idx + 1
                   /\ vp_pc' = IF patch_file_idx = n_paths THEN "compile" ELSE "parse"
                   /\ UNCHANGED <<vp_result, unexpected_exception>>
    /\ UNCHANGED <<attempt, n_paths, checked_out, compiled, tested>>
    /\ UNCHANGED notVPVars

\* validate_patch, lines 196-210: one round of the loop over the files
vp_parse ==
    /\ vp_pc = "parse"
    /\ \E end \in ParseEnds :
           /\ parsed' = Append(parsed, end)
           /\ IF end \in {"JavaSyntaxError", "LexerError"}
              THEN /\ vp_result' = parse_error_result(end)
                   /\ vp_pc' = "returned"
                   /\ UNCHANGED <<written, unexpected_exception, patch_file_idx>>
              ELSE /\ unexpected_exception' =
                          IF end = "Exception" THEN unexpected_exception + 1
                          ELSE unexpected_exception
                   /\ written' = written \cup {patch_file_idx}
                   /\ patch_file_idx' = patch_file_idx + 1
                   /\ vp_pc' = IF patch_file_idx = n_paths THEN "compile" ELSE "parse"
                   /\ UNCHANGED vp_result
    /\ UNCHANGED <<attempt, n_paths, checked_out, compiled, tested>>
    /\ UNCHANGED notVPVars

\* validate_patch, lines 211-215
vp_compile ==
    /\ vp_pc = "compile"
    /\ \E comp \in CompileReturns :
           /\ compiled' = Append(compiled, comp)
           /\ IF ~comp.success
              THEN vp_result' = compilation_error_result(comp) /\ vp_pc' = "returned"
              ELSE UNCHANGED vp_result /\ vp_pc' = "test"
    /\ UNCHANGED <<attempt, n_paths, patch_file_idx, checked_out, parsed, written,
                   unexpected_exception, tested>>
    /\ UNCHANGED notVPVars

\* mutant of test_run: the entire suite is run after the relevant tests
\* whether or not those pass
test_run_both(entire_test_suite) ==
    \E end \in TestEnds :
        /\ tested' = Append(tested, [entire_test_suite |-> entire_test_suite, end |-> end])
        /\ IF end = TimeoutExpired
           THEN vp_result' = timeout_result(compiled[1]) /\ vp_pc' = "returned"
           ELSE IF ~entire_test_suite
           THEN UNCHANGED vp_result /\ vp_pc' = "test_entire"
           ELSE vp_result' = tested_result(compiled[1], end) /\ vp_pc' = "returned"

\* validate_patch, lines 216-230, and Defects4J.test: a test run, of the
\* relevant tests first and of the entire suite if those pass
test_run(entire_test_suite) ==
    \E end \in TestEnds :
        /\ tested' = Append(tested, [entire_test_suite |-> entire_test_suite, end |-> end])
        /\ IF end = TimeoutExpired
           THEN vp_result' = timeout_result(compiled[1]) /\ vp_pc' = "returned"
           ELSE IF end.success /\ ~entire_test_suite
           THEN UNCHANGED vp_result /\ vp_pc' = "test_entire"
           ELSE vp_result' = tested_result(compiled[1], end) /\ vp_pc' = "returned"

\* Defects4J.test, lines 181-185: the relevant tests
vp_test_relevant ==
    /\ vp_pc = "test"
    /\ test_run(FALSE)
    /\ UNCHANGED <<attempt, n_paths, patch_file_idx, checked_out, parsed, written,
                   unexpected_exception, compiled>>
    /\ UNCHANGED notVPVars

\* Defects4J.test, line 186: the entire suite
vp_test_entire ==
    /\ vp_pc = "test_entire"
    /\ test_run(TRUE)
    /\ UNCHANGED <<attempt, n_paths, patch_file_idx, checked_out, parsed, written,
                   unexpected_exception, compiled>>
    /\ UNCHANGED notVPVars

\* Runner.validate, lines 134-139: the attempt returned its result, the
\* next candidate patch is validated
vp_next ==
    /\ vp_pc = "returned"
    /\ attempt < MaxAttempts
    /\ attempt' = attempt + 1
    /\ vp_pc' = "idle"
    /\ n_paths' \in 1..MaxFiles
    /\ patch_file_idx' = 0
    /\ checked_out' = FALSE
    /\ parsed' = <<>>
    /\ written' = {}
    /\ compiled' = <<>>
    /\ tested' = <<>>
    /\ vp_result' = None
    /\ UNCHANGED unexpected_exception
    /\ UNCHANGED notVPVars

NextValidatePatch ==
    \/ vp_next
    \/ vp_begin
    \/ vp_parse
    \/ vp_compile
    \/ vp_test_relevant
    \/ vp_test_entire

SpecValidatePatch == InitValidatePatch /\ [][NextValidatePatch]_vars

(***************************************************************************)
(* Claims about validate_patch (checked under SpecValidatePatch).           *)
(***************************************************************************)
\* the parse of the last file parsed raised a syntax or lexer error
syntax_or_lexer_error ==
    parsed # <<>> /\ parsed[Len(parsed)] \in {"JavaSyntaxError", "LexerError"}

\* d4j.compile was called and failed
compile_failed == compiled # <<>> /\ ~compiled[1].success

\* d4j.compile was called and succeeded
compile_succeeded == compiled # <<>> /\ compiled[1].success

\* the last test run timed out
test_timed_out == tested # <<>> /\ tested[Len(tested)].end = TimeoutExpired

\* the last test run returned that tests fail
test_failed ==
    /\ tested # <<>>
    /\ tested[Len(tested)].end # TimeoutExpired
    /\ ~tested[Len(tested)].end.success

\* both test runs were made and both returned that no test fails
test_succeeded ==
    /\ Len(tested) = 2
    /\ \A i \in 1..2 : tested[i].end # TimeoutExpired /\ tested[i].end.success

subset_failed ==
    /\ tested # <<>>
    /\ tested[1].end # TimeoutExpired
    /\ ~tested[1].end.success

\* the run of the relevant tests returned that no test fails
subset_passed ==
    /\ tested # <<>>
    /\ tested[1].end # TimeoutExpired
    /\ tested[1].end.success

\* C21: Defects4J.test runs the relevant tests first and the entire suite
\* only after the relevant tests passed; when the relevant tests fail the
\* entire suite is never run and the result of the relevant tests is what
\* test returns (validate_patch builds its result from it); test reports
\* success only if both runs succeeded.
C21_SubsetThenEntire ==
    /\ Len(tested) <= 2
    /\ tested # <<>> => ~tested[1].entire_test_suite
    /\ Len(tested) = 2 => tested[2].entire_test_suite /\ subset_passed
    /\ vp_pc = "test_entire" => Len(tested) = 1 /\ subset_passed
    /\ subset_failed =>
           /\ Len(tested) = 1
           /\ vp_pc = "returned"
           /\ vp_result = tested_result(compiled[1], tested[1].end)
           /\ vp_result.outcome = "TestingError"
    /\ (vp_result # None /\ vp_result.outcome = "Success") =>
           /\ Len(tested) = 2
           /\ \A i \in 1..2 : tested[i].end # TimeoutExpired /\ tested[i].end.success
           /\ vp_result = tested_result(compiled[1], tested[2].end)

\* C21 witness: the relevant tests failed, test returned their result
\* without a run of the entire suite
C21_Witness ==
    /\ vp_pc = "returned"
    /\ subset_failed
    /\ Len(tested) = 1
    /\ vp_result.stdout = compiled[1].stdout \o RULE \o "Failing tests: 1"

\* the parse of a file of this attempt raised an exception that is neither
\* a syntax error nor a lexer error
unexpected_parse_failure == \E i \in DOMAIN parsed : parsed[i] = "Exception"

\* the result compile and test alone decide
result_of_compile_and_test ==
    IF compile_failed THEN compilation_error_result(compiled[1])
    ELSE IF test_timed_out THEN timeout_result(compiled[1])
    ELSE tested_result(compiled[1], tested[Len(tested)].end)

\* the step is a parse that raised an unexpected exception
unexpected_parse_step ==
    vp_parse /\ parsed'[Len(parsed')] = "Exception"

\* C23: a parse that raises an exception that is neither a syntax nor a
\* lexer error appends one record to the file unexpected_exception, is
\* followed by the write of the candidate file and lets the validation go
\* on to compile; the validation then returns what compile and test alone
\* decide (test being run only after a successful compile), never
\* ParseError, and does not raise.
C23_UnexpectedExceptionLogged ==
    /\ [][unexpected_parse_step =>
              /\ unexpected_exception' = unexpected_exception + 1
              /\ written' = written \cup {patch_file_idx}
              /\ vp_pc' = "compile"
              /\ vp_result' = None]_vars
    /\ [](unexpected_parse_failure =>
              /\ vp_pc \in {"compile", "test", "test_entire", "returned"}
              /\ unexpected_exception > 0
              /\ written = DOMAIN parsed
              /\ compile_failed => tested = <<>>
              /\ vp_pc = "returned" =>
                     /\ compiled # <<>>
                     /\ vp_result.outcome # "ParseError"
                     /\ vp_result = result_of_compile_and_test)

\* C23 witness: the parse of the candidate file raised an unexpected
\* exception, the file was written and the validation returned Success
C23_Witness ==
    /\ vp_pc = "returned"
    /\ parsed = <<"Exception">>
    /\ written = {1}
    /\ unexpected_exception > 0
    /\ vp_result.outcome = "Success"

(***************************************************************************)
(* repair.py: remove_buggy_hunk and the loop of repair_bug_no_cleanup over  *)
(* the hunks of one buggy file.  A content is a sequence of characters; a   *)
(* TextFile is a reference into text_files, so that a copy and an alias     *)
(* differ.                                                                  *)
(***************************************************************************)
\* the texts a line of a file may have, without its newline
LineTexts == { <<>>, <<"a">> }

\* the contents of a file of lines, the last line with or without newline
content_of(lines, final_newline) ==
    Flatten([i \in DOMAIN lines |->
        IF i = Len(lines) /\ ~final_newline THEN lines[i] ELSE lines[i] \o <<"\n">>])

\* the contents of the buggy files
Contents ==
    UNION { { content_of(lines, nl) : lines \in [1..n -> LineTexts], nl \in BOOLEAN }
            : n \in 1..MaxLines }

\* the number of newline characters of a content
n_newlines(content) == Cardinality({i \in DOMAIN content : content[i] = "\n"})

\* TextFile.form_index: the offset of a (line, column) position that lies
\* within the content; line and offset are 0-based
form_index(content, line, col) ==
    IF line = 0 THEN col
    ELSE col + CHOOSE i \in DOMAIN content :
                   /\ content[i] = "\n"
                   /\ Cardinality({j \in 1..i : content[j] = "\n"}) = line

\* TextFile.refine_index: the position, for a position within the content
refine_index(content, line, col) == [line |-> line, character |-> col]

\* TextFile.change with one edit: the range is replaced by the text
change(content, edit) ==
    LET s == form_index(content, edit.range.start.line, edit.range.start.character)
        e == form_index(content, edit.range.end.line, edit.range.end.character)
    IN  SubSeq(content, 1, s) \o edit.text \o SubSeq(content, e + 1, Len(content))

\* the spans a patch of the file may describe: a 1-based start line and a
\* number of removed lines, all within the content
Spans(content) ==
    { sp \in [start : 1..(n_newlines(content) + 1), n : 0..n_newlines(content)] :
        sp.start - 1 + sp.n <= n_newlines(content) }

\* the Change of a span: its removed lines are counted only
Change(sp) == [start |-> sp.start, removed_lines |-> [i \in 1..sp.n |-> "-"]]

RECURSIVE ChangeListsUpTo(_, _)
\* the lists of at most n changes of a buggy file: in file order, with an
\* unchanged line between two of them
ChangeListsUpTo(content, n) ==
    IF n = 1 THEN { <<Change(sp)>> : sp \in Spans(content) }
    ELSE LET shorter == ChangeListsUpTo(content, n - 1)
         IN  shorter \cup UNION {
                 { Append(cl, Change(sp)) :
                     sp \in {s \in Spans(content) :
                                s.start > cl[Len(cl)].start
                                              + Len(cl[Len(cl)].removed_lines)} }
                 : cl \in shorter }

\* the changes of a buggy file
ChangeLists(content) == ChangeListsUpTo(content, MaxChanges)

\* mutant of hunk_edit: the span is replaced by nothing
hunk_edit_empty(start_pos, end_pos) ==
    [text |-> <<>>, range |-> [start |-> start_pos, end |-> end_pos]]

\* remove_buggy_hunk, lines 68-75: the span is replaced by one newline
hunk_edit(start_pos, end_pos) ==
    [text |-> <<"\n">>, range |-> [start |-> start_pos, end |-> end_pos]]

\* mutant of remove_buggy_hunk: the suffix is taken from the start of the
\* span, so that it holds the removed lines too
remove_buggy_hunk_keeping(tf, chg) ==
    LET start == chg.start - 1
        end == start + Len(chg.removed_lines)
        start_pos == refine_index(tf.content, start, 0)
        end_pos == refine_index(tf.content, end, 0)
        start_index == form_index(tf.content, start, 0)
        prefix == SubSeq(tf.content, 1, start_index)
        suffix == <<"\n">> \o SubSeq(tf.content, start_index + 1, Len(tf.content))
        content == change(tf.content, <<hunk_edit(start_pos, end_pos)>>[1])
        cursor == start_index
        at(i) == IF i < 0 THEN content[Len(content) + i + 1] ELSE content[i + 1]
    IN  [prefix |-> prefix, suffix |-> suffix,
         text_file |-> [content |-> content, cursor |-> cursor],
         asserted |-> /\ prefix # <<>> /\ prefix[Len(prefix)] = "\n"
                      /\ cursor < Len(content)
                      /\ at(cursor - 1) = "\n"
                      /\ at(cursor) = "\n"]

\* remove_buggy_hunk: the prefix, the suffix, the TextFile after the edit
\* and whether the assertions of lines 78-80 hold.  text[-1] is the last
\* character, as in Python.
remove_buggy_hunk(tf, chg) ==
    LET start == chg.start - 1
        end == start + Len(chg.removed_lines)
        start_pos == refine_index(tf.content, start, 0)
        end_pos == refine_index(tf.content, end, 0)
        start_index == form_index(tf.content, start, 0)
        end_index == form_index(tf.content, end, 0)
        prefix == SubSeq(tf.content, 1, start_index)
        suffix == <<"\n">> \o SubSeq(tf.content, end_index + 1, Len(tf.content))
        content == change(tf.content, <<hunk_edit(start_pos, end_pos)>>[1])
        cursor == start_index
        at(i) == IF i < 0 THEN content[Len(content) + i + 1] ELSE content[i + 1]
    IN  [prefix |-> prefix, suffix |-> suffix,
         text_file |-> [content |-> content, cursor |-> cursor],
         asserted |-> /\ prefix # <<>> /\ prefix[Len(prefix)] = "\n"
                      /\ cursor < Len(content)
                      /\ at(cursor - 1) = "\n"
                      /\ at(cursor) = "\n"]

\* mutant of copy: the same TextFile, not a copy of it
copy_alias(files, ref) == [files |-> files, ref |-> ref]

\* TextFile.copy, called at line 208: a new TextFile with the same content
\* and cursor
copy(files, ref) ==
    [files |-> Append(files, files[ref]), ref |-> Len(files) + 1]

InitHunks ==
    /\ \E content \in Contents :
           /\ text_files = << [content |-> content, cursor |-> 0] >>
           /\ loaded = content
           /\ changes \in ChangeLists(content)
    /\ buggy_text_file = 1
    /\ text_file = 0
    /\ n_removed = 0
    /\ lm_contexts = <<>>
    /\ hpc = "file"
    /\ RepairerUnused
    /\ RunnerUnused
    /\ ValidateUnused
    /\ ValidatePatchUnused
    /\ FromPatchFileUnused
    /\ Defects4JUnused
    /\ EvaluateUnused
    /\ WaitUnused
    /\ IterFilesUnused

\* repair_bug_no_cleanup, line 208: the TextFile the hunks of the file are
\* removed from
copy_text_file ==
    /\ hpc = "file"
    /\ LET c == copy(text_files, buggy_text_file)
       IN  text_files' = c.files /\ text_file' = c.ref
    /\ hpc' = "hunk"
    /\ UNCHANGED <<buggy_text_file, changes, n_removed, lm_contexts, loaded>>
    /\ UNCHANGED notHunkVars

\* the change the loop of line 216 is at: the changes are taken in
\* reversed order
change_now == changes[Len(changes) - n_removed]

\* repair_bug_no_cleanup, lines 216-224: the next hunk is removed and its
\* prefix and suffix make the context of the generation; an assertion of
\* remove_buggy_hunk that fails ends the repair of the bug
remove_next_hunk ==
    /\ hpc = "hunk"
    /\ n_removed < Len(changes)
    /\ LET r == remove_buggy_hunk(text_files[text_file], change_now)
       IN  /\ text_files' = [text_files EXCEPT ![text_file] = r.text_file]
           /\ IF r.asserted
              THEN /\ lm_contexts' = Append(lm_contexts,
                          [change |-> change_now, prefix |-> r.prefix,
                           suffix |-> r.suffix])
                   /\ n_removed' = n_removed + 1
                   /\ hpc' = "hunk"
              ELSE /\ hpc' = "raised"
                   /\ UNCHANGED <<lm_contexts, n_removed>>
    /\ UNCHANGED <<buggy_text_file, text_file, changes, loaded>>
    /\ UNCHANGED notHunkVars

\* repair_bug_no_cleanup, line 216: the changes of the file are exhausted
hunks_done ==
    /\ hpc = "hunk"
    /\ n_removed = Len(changes)
    /\ hpc' = "done"
    /\ UNCHANGED <<text_files, buggy_text_file, text_file, changes, n_removed,
                   lm_contexts, loaded>>
    /\ UNCHANGED notHunkVars

NextHunks ==
    \/ copy_text_file
    \/ remove_next_hunk
    \/ hunks_done

SpecHunks == InitHunks /\ [][NextHunks]_vars

(***************************************************************************)
(* Claims about the removal of hunks (checked under SpecHunks).             *)
(***************************************************************************)
\* the number of lines of a content: a last line without newline counts
n_lines(content) ==
    n_newlines(content)
        + (IF content # <<>> /\ content[Len(content)] # "\n" THEN 1 ELSE 0)

\* the span of the change lies strictly inside the content: a line of the
\* content precedes it and a line of the content follows it
strictly_inside(chg, content) ==
    /\ chg.start >= 2
    /\ chg.start - 1 + Len(chg.removed_lines) < n_lines(content)

\* the TextFile the hunks are removed from
working == text_files[text_file]

\* C11: for every file and every change whose span lies strictly inside the
\* file, remove_buggy_hunk passes its three assertions: the prefix it
\* returns ends with a newline, and after the edit the character at the
\* cursor and the character before the cursor are newlines.
C11_AssertionsHold ==
    /\ hpc = "raised" => ~strictly_inside(change_now, loaded)
    /\ (n_removed > 0 /\ hpc # "raised") =>
           LET last == lm_contexts[n_removed]
           IN  strictly_inside(last.change, loaded) =>
                   /\ last.prefix # <<>>
                   /\ last.prefix[Len(last.prefix)] = "\n"
                   /\ working.cursor >= 1
                   /\ working.cursor < Len(working.content)
                   /\ working.content[working.cursor] = "\n"
                   /\ working.content[working.cursor + 1] = "\n"

\* C11 witness: two hunks were removed, both strictly inside the file, one
\* with removed lines and one without
C11_Witness ==
    /\ hpc = "done"
    /\ n_removed = 2
    /\ \A i \in 1..2 : strictly_inside(lm_contexts[i].change, loaded)
    /\ \E i \in 1..2 : lm_contexts[i].change.removed_lines = <<>>
    /\ \E i \in 1..2 : lm_contexts[i].change.removed_lines # <<>>

\* the text of content before the span of the change
text_before(content, chg) ==
    SubSeq(content, 1, form_index(content, chg.start - 1, 0))

\* the text of content after the span of the change
text_after(content, chg) ==
    SubSeq(content,
           form_index(content, chg.start - 1 + Len(chg.removed_lines), 0) + 1,
           Len(content))

RECURSIVE with_removed(_, _)
\* the content with the span of every change of chgs replaced by one
\* newline
with_removed(content, chgs) ==
    IF chgs = <<>> THEN content
    ELSE LET chg == chgs[Len(chgs)]
         IN  with_removed(text_before(content, chg) \o <<"\n">> \o text_after(content, chg),
                          SubSeq(chgs, 1, Len(chgs) - 1))

\* the changes that follow, in the file, the change of the i-th context
later_changes(i) == SubSeq(changes, Len(changes) - i + 2, Len(changes))

\* the loaded TextFile is as it was loaded
C19_PristineKept == text_files[buggy_text_file].content = loaded

\* C19 (as stated): the prefix and the suffix of every hunk are the loaded
\* text before and after that hunk alone, and the loaded TextFile is never
\* modified.
C19_IndependentCopies ==
    /\ C19_PristineKept
    /\ \A i \in DOMAIN lm_contexts :
           /\ lm_contexts[i].prefix = text_before(loaded, lm_contexts[i].change)
           /\ lm_contexts[i].suffix
                  = <<"\n">> \o text_after(loaded, lm_contexts[i].change)

\* C19 (amended): one copy of the loaded TextFile is taken per file and the
\* hunks are removed from that one copy, last hunk first.  The prefix of a
\* hunk is the loaded text before the hunk; its suffix is a newline and the
\* text after the hunk in which every later hunk of the file is already
\* replaced by one newline; the loaded TextFile is never modified.
C19_OneCopyPerFile ==
    /\ C19_PristineKept
    /\ text_file # 0 => text_file # buggy_text_file
    /\ \A i \in DOMAIN lm_contexts :
           /\ lm_contexts[i].prefix = text_before(loaded, lm_contexts[i].change)
           /\ lm_contexts[i].suffix
                  = <<"\n">> \o text_after(with_removed(loaded, later_changes(i)),
                                           lm_contexts[i].change)

\* C19 witness: the second hunk removed got a suffix that is not the loaded
\* text after it
C19_Witness ==
    /\ hpc = "done"
    /\ n_removed = 2
    /\ lm_contexts[2].suffix # <<"\n">> \o text_after(loaded, lm_contexts[2].change)

RECURSIVE splitlines(_)
\* the lines of a content, each with its newline (the last line may lack
\* one)
splitlines(content) ==
    LET newlines == {i \in DOMAIN content : content[i] = "\n"}
    IN  IF content = <<>> THEN <<>>
        ELSE IF newlines = {} THEN <<content>>
        ELSE LET first == CHOOSE i \in newlines : \A j \in newlines : i <= j
             IN  <<SubSeq(content, 1, first)>>
                     \o splitlines(SubSeq(content, first + 1, Len(content)))

\* the text of the lines from line from to line to of a content (1-based,
\* both included)
text_of_lines(content, from, to) == Flatten(SubSeq(splitlines(content), from, to))

\* the step is a call of remove_buggy_hunk that returns
hunk_removed == remove_next_hunk /\ hpc' # "raised"

\* C25: after a call of remove_buggy_hunk that returns, on a change whose
\* span lies in the file, the content of the file is the returned prefix
\* followed by the returned suffix and the cursor is the length of the
\* prefix; the prefix is the text, before the call, of the lines before the
\* start line of the change, and the suffix is a newline followed by the
\* text, before the call, of the lines after the removed lines; for a
\* change without removed lines, prefix and suffix without its first
\* newline make the whole text the file had before the call.
C25_PrefixAndSuffix ==
    [][hunk_removed =>
          LET before == text_files[text_file].content
              after == text_files'[text_file]
              chg == change_now
              ctx == lm_contexts'[Len(lm_contexts')]
              last_removed == chg.start - 1 + Len(chg.removed_lines)
          IN  /\ ctx.change = chg
              /\ after.content = ctx.prefix \o ctx.suffix
              /\ after.cursor = Len(ctx.prefix)
              /\ ctx.prefix = text_of_lines(before, 1, chg.start - 1)
              /\ ctx.suffix # <<>> /\ Head(ctx.suffix) = "\n"
              /\ Tail(ctx.suffix)
                     = text_of_lines(before, last_removed + 1, Len(splitlines(before)))
              /\ chg.removed_lines = <<>> => ctx.prefix \o Tail(ctx.suffix) = before]_vars

\* C25 witness: a hunk with removed lines and then a hunk without were
\* removed from a file, each with text before and after it, and the
\* content is the prefix and the suffix of the second
C25_Witness ==
    /\ n_removed = 2
    /\ lm_contexts[1].change.removed_lines # <<>>
    /\ lm_contexts[2].change.removed_lines = <<>>
    /\ lm_contexts[2].prefix # <<>>
    /\ Len(lm_contexts[2].suffix) > 1
    /\ working.content = lm_contexts[2].prefix \o lm_contexts[2].suffix
    /\ working.cursor = Len(lm_contexts[2].prefix)

(***************************************************************************)
(* d4j.py: BuggyFile.from_patch_file.                                       *)
(*                                                                         *)
(* A patched file is the sequence of the lines of its hunks.  A Line has a  *)
(* type, a source and a target line number (None where unidiff gives none)  *)
(* and a value; str(line) is its marker followed by its value.  Every line  *)
(* of a patch gets a value of its own, its position, so that a line lost or *)
(* taken twice shows in the Change list.                                    *)
(***************************************************************************)
LineTypes == {"context", "added", "removed"}

PatchShapes == UNION { [1..n -> LineTypes] : n \in 1..MaxPatchLines }

\* the lines a diff tool writes for a shape: numbers run on in each
\* numbering, and a second hunk, if any, starts at position hunk2 after one
\* unchanged line that is not shown
patch_lines(shape, hunk2) ==
    [i \in 1..Len(shape) |->
        LET skipped == IF hunk2 # 0 /\ i >= hunk2 THEN 1 ELSE 0
            source == 1 + skipped
                        + Cardinality({j \in 1..(i - 1) : shape[j] # "added"})
            target == 1 + skipped
                        + Cardinality({j \in 1..(i - 1) : shape[j] # "removed"})
        IN  [line_type |-> shape[i],
             source_line_no |-> IF shape[i] = "added" THEN None ELSE source,
             target_line_no |-> IF shape[i] = "removed" THEN None ELSE target,
             value |-> i]]

is_context(line) == line.line_type = "context"
is_added(line) == line.line_type = "added"
is_removed(line) == line.line_type = "removed"

marker(line) ==
    CASE is_added(line) -> "+"
      [] is_removed(line) -> "-"
      [] OTHER -> " "

\* str(line): the marker, then the value
str(line) == <<marker(line), line.value>>

\* str(line)[1:]
stripped(line) == Tail(str(line))

\* utils.line_consecutive: two lines of the same type whose line numbers
\* differ by exactly one
line_consecutive(lhs, rhs) ==
    \/ is_added(lhs) /\ is_added(rhs)
        /\ rhs.target_line_no = lhs.target_line_no + 1
    \/ is_removed(lhs) /\ is_removed(rhs)
        /\ rhs.source_line_no = lhs.source_line_no + 1

\* utils.take_while_two on an iterator that yields s: the longest prefix
\* whose elements satisfy unary_pred and whose neighbours satisfy
\* pairwise_pred (the two lambdas, as functions of a line and of a pair of
\* lines).  pulled counts the elements taken out of the iterator to find it:
\* the prefix and the element that ended it, which is put back at the head
\* of the iterator that is returned (rest).
take_while_two(unary_pred, pairwise_pred, s) ==
    LET good(n) == \A i \in 1..n :
                      /\ unary_pred[s[i]]
                      /\ i > 1 => pairwise_pred[<<s[i - 1], s[i]>>]
        n == CHOOSE m \in 0..Len(s) :
                /\ good(m)
                /\ \A m2 \in 0..Len(s) : good(m2) => m2 <= m
    IN  [taken |-> SubSeq(s, 1, n),
         rest |-> SubSeq(s, n + 1, Len(s)),
         pulled |-> IF n < Len(s) THEN n + 1 ELSE n]

\* lambda _: True
any_line == [line \in Range(patch_file) |-> TRUE]

\* lambda elem: elem.is_added
elem_is_added == [elem \in Range(patch_file) |-> is_added(elem)]

\* lambda lhs, rhs: utils.line_consecutive(lhs, rhs)
lines_consecutive ==
    [pair \in Range(patch_file) \X Range(patch_file) |->
        line_consecutive(pair[1], pair[2])]

\* what is left in lines_iter
remaining == SubSeq(patch_file, lines_iter + 1, Len(patch_file))

\* the number of a line in the numbering that reversed selects
line_no(line) ==
    IF reversed THEN line.target_line_no ELSE line.source_line_no

\* lines 67-89: the Change of a run of removed and a run of added lines
make_change(removed_run, added_run) ==
    LET removed_lines == IF reversed THEN added_run ELSE removed_run
        added_lines == IF reversed THEN removed_run ELSE added_run
        start == IF Len(removed_lines) = 0 /\ Len(added_lines) > 0
                 THEN 1 + line_no(last_context)
                 ELSE line_no(removed_lines[1])
    IN  [start |-> start,
         removed_lines |-> [i \in 1..Len(removed_lines) |->
                                stripped(removed_lines[i])],
         added_lines |-> [i \in 1..Len(added_lines) |->
                                stripped(added_lines[i])]]

InitFromPatchFile ==
    /\ \E shape \in PatchShapes :
        \E hunk2 \in {0} \cup (2..Len(shape)) :
            patch_file = patch_lines(shape, hunk2)
    /\ reversed \in BOOLEAN
    /\ lines_iter = 0
    /\ last_context = None
    /\ patch_changes = <<>>
    /\ fpc = "first"
    /\ RepairerUnused
    /\ RunnerUnused
    /\ ValidateUnused
    /\ ValidatePatchUnused
    /\ HunkRemovalUnused
    /\ Defects4JUnused
    /\ EvaluateUnused
    /\ WaitUnused
    /\ IterFilesUnused

\* line 40: last_context = next(lines_iter)
first_line ==
    /\ fpc = "first"
    /\ remaining # <<>>
    /\ last_context' = remaining[1]
    /\ lines_iter' = lines_iter + 1
    /\ fpc' = "loop"
    /\ UNCHANGED <<patch_file, reversed, patch_changes, notPatchVars>>

\* lines 42, 63-66: the next line is a context line
context_line ==
    /\ fpc = "loop"
    /\ remaining # <<>>
    /\ LET start_line == remaining[1]
       IN  /\ ~is_added(start_line) /\ ~is_removed(start_line)
           /\ last_context' = IF is_context(start_line) THEN start_line
                              ELSE last_context
    /\ lines_iter' = lines_iter + 1
    /\ UNCHANGED <<patch_file, reversed, patch_changes, fpc, notPatchVars>>

\* lines 42-50, 67-89: the next line is an added line.  The run is taken
\* from chain([start_line], lines_iter); the main loop goes on with
\* lines_iter, from which the line that ended the run has been pulled.
added_run ==
    /\ fpc = "loop"
    /\ remaining # <<>>
    /\ is_added(remaining[1])
    /\ is_context(last_context)
    /\ LET r == take_while_two(any_line, lines_consecutive, remaining)
       IN  /\ lines_iter' = lines_iter + r.pulled
           /\ patch_changes' = Append(patch_changes, make_change(<<>>, r.taken))
    /\ UNCHANGED <<patch_file, reversed, last_context, fpc, notPatchVars>>

\* lines 42, 51-62, 67-89: the next line is a removed line.  The added run
\* is taken from line_iter, the iterator the first call returned.
removed_run ==
    /\ fpc = "loop"
    /\ remaining # <<>>
    /\ is_removed(remaining[1])
    /\ is_context(last_context)
    /\ LET r1 == take_while_two(any_line, lines_consecutive, remaining)
           r2 == take_while_two(elem_is_added, lines_consecutive, r1.rest)
           \* the head of r1.rest was pulled by the first call
           pulled2 == IF r2.pulled > 1 THEN r2.pulled - 1 ELSE 0
       IN  /\ lines_iter' = lines_iter + r1.pulled + pulled2
           /\ patch_changes' = Append(patch_changes,
                                      make_change(r1.taken, r2.taken))
    /\ UNCHANGED <<patch_file, reversed, last_context, fpc, notPatchVars>>

\* lines 44, 52: assert last_context.is_context fails
assert_last_context ==
    /\ fpc = "loop"
    /\ remaining # <<>>
    /\ is_added(remaining[1]) \/ is_removed(remaining[1])
    /\ ~is_context(last_context)
    /\ lines_iter' = lines_iter + 1
    /\ fpc' = "AssertionError"
    /\ UNCHANGED <<patch_file, reversed, last_context, patch_changes,
                   notPatchVars>>

\* lines 90-97: next() raises StopIteration and the BuggyFile is returned
stop_iteration ==
    /\ fpc \in {"first", "loop"}
    /\ remaining = <<>>
    /\ fpc' = "returned"
    /\ UNCHANGED <<patch_file, reversed, lines_iter, last_context,
                   patch_changes, notPatchVars>>

NextFromPatchFile ==
    \/ first_line
    \/ context_line
    \/ added_run
    \/ removed_run
    \/ assert_last_context
    \/ stop_iteration

SpecFromPatchFile == InitFromPatchFile /\ [][NextFromPatchFile]_vars

(***************************************************************************)
(* Claims about from_patch_file.                                            *)
(***************************************************************************)
\* position i of the patch begins an edit: an added or removed line that
\* does not go on the run before it
begins_edit(i) ==
    /\ ~is_context(patch_file[i])
    /\ \/ i = 1
       \/ is_context(patch_file[i - 1])
       \/ ~ \/ line_consecutive(patch_file[i - 1], patch_file[i])
            \/ is_removed(patch_file[i - 1]) /\ is_added(patch_file[i])

\* the positions of the edit that begins at i
edit_lines(i) ==
    {j \in i..Len(patch_file) :
        \A m \in (i + 1)..j : ~is_context(patch_file[m]) /\ ~begins_edit(m)}

\* the values of the lines of one type in the edit that begins at i, in order
RECURSIVE values_from(_, _, _)
values_from(i, j, type) ==
    IF j \notin edit_lines(i) THEN <<>>
    ELSE (IF patch_file[j].line_type = type THEN stripped(patch_file[j])
          ELSE <<>>) \o values_from(i, j + 1, type)

\* the edits of the patch in file order, as pairs of removed and added values
RECURSIVE edits_from(_)
edits_from(i) ==
    IF i > Len(patch_file) THEN <<>>
    ELSE (IF begins_edit(i)
          THEN << [removed_lines |-> values_from(i, i,
                        IF reversed THEN "added" ELSE "removed"),
                   added_lines |-> values_from(i, i,
                        IF reversed THEN "removed" ELSE "added")] >>
          ELSE <<>>) \o edits_from(i + 1)

edits == edits_from(1)

\* C12: the BuggyFile that from_patch_file returns has exactly one Change
\* per contiguous edit of the patch, in file order, with the removed and
\* the added lines of that edit, and the starts ascend strictly.
C12_OneChangePerEdit ==
    fpc = "returned" =>
        /\ Len(patch_changes) = Len(edits)
        /\ \A i \in DOMAIN patch_changes :
            /\ i <= Len(edits)
            /\ patch_changes[i].removed_lines = edits[i].removed_lines
            /\ patch_changes[i].added_lines = edits[i].added_lines
        /\ \A i \in DOMAIN patch_changes : \A j \in DOMAIN patch_changes :
            i < j => patch_changes[i].start < patch_changes[j].start

\* the position in the patch of a line of a Change: its value
patch_position(text) == text[1]

\* the position in the patch of the first line of an emitted Change
first_position(chg) ==
    LET positions == {patch_position(chg.removed_lines[i]) :
                            i \in DOMAIN chg.removed_lines}
                     \cup {patch_position(chg.added_lines[i]) :
                            i \in DOMAIN chg.added_lines}
    IN  CHOOSE p \in positions : \A q \in positions : p <= q

\* the context line that most recently precedes position p
context_before(p) ==
    LET before == {q \in 1..(p - 1) : is_context(patch_file[q])}
    IN  IF before = {} THEN None
        ELSE patch_file[CHOOSE q \in before : \A q2 \in before : q2 <= q]

\* C13: every emitted Change without removed lines starts one line after
\* the context line that most recently precedes its edit in the patch, and
\* every other Change starts at its first removed line, in the numbering
\* that reversed selects.
C13_StartOfEveryEdit ==
    \A i \in DOMAIN patch_changes :
        LET chg == patch_changes[i]
            p == first_position(chg)
        IN  IF chg.removed_lines = <<>>
            THEN /\ context_before(p) # None
                 /\ chg.start = 1 + line_no(context_before(p))
            ELSE chg.start = line_no(patch_file[patch_position(chg.removed_lines[1])])

(***************************************************************************)
(* d4j.py: Defects4J.__init__ and Defects4J.checkout.                       *)
(*                                                                         *)
(* A Bug is its buggy files and its project path, a BuggyFile its changes,  *)
(* a Change its start and its removed and added lines.  A dict is a         *)
(* function of its keys.                                                    *)
(***************************************************************************)
\* a Change that adds n lines
change_adding(n) ==
    [start |-> 1, removed_lines |-> <<"-">>, added_lines |-> [i \in 1..n |-> "+"]]

\* Bug(buggy_files, proj_path) for the files given by the numbers of lines
\* their changes add
bug_of(bug_id, files) ==
    [buggy_files |->
        [f \in DOMAIN files |->
            [path |-> <<"File", f>>,
             changes |-> [c \in DOMAIN files[f] |-> change_adding(files[f][c])]]],
     proj_path |-> <<"d4j_checkout_root">> \o bug_id]

\* what the patches of a bug can give: one change of one line, of two lines
\* or of none, two changes in one file, one change in each of two files
BugShapes ==
    { << <<1>> >>, << <<2>> >>, << <<0>> >>, << <<1, 1>> >>, << <<1>>, <<1>> >> }

BenchmarkBugIds == {Chart11, Lang26, Math5}

\* a selection that looks at the number of files only
select_single_file(bugs) ==
    LET ids == {id \in DOMAIN bugs : Len(bugs[id].buggy_files) = 1}
    IN  [id \in ids |-> bugs[id]]

\* lines 128-132
select_single_hunk(bugs) ==
    LET ids == {id \in DOMAIN bugs :
                    /\ Len(bugs[id].buggy_files) = 1
                    /\ Len(bugs[id].buggy_files[1].changes) = 1}
    IN  [id \in ids |-> bugs[id]]

\* lines 133-137
select_single_line(hunk_bugs) ==
    LET ids == {id \in DOMAIN hunk_bugs :
                    Len(hunk_bugs[id].buggy_files[1].changes[1].added_lines) = 1}
    IN  [id \in ids |-> hunk_bugs[id]]

\* split_bug_id
split_bug_id(bug_id) == <<bug_id[1], bug_id[3]>>

reset_command == <<"git", "checkout", "HEAD", "-f", ".">>
clean_command == <<"git", "clean", "-xfd">>

\* lines 219-229
benchmark_checkout(bug_id, buggy, bug_proj_path) ==
    <<"defects4j", "checkout", "-p", split_bug_id(bug_id)[1],
      "-v" \o split_bug_id(bug_id)[2] \o (IF buggy THEN "b" ELSE "f"),
      "-w", bug_proj_path>>

\* a checkout that ends with the reset, the clean before it
checkout_commands_reset_last(bug_id, buggy, bug_proj_path) ==
    << reset_command,
       benchmark_checkout(bug_id, buggy, bug_proj_path),
       clean_command,
       reset_command >>

\* lines 218-231: the commands of one checkout, in order
checkout_commands(bug_id, buggy, bug_proj_path) ==
    << reset_command,
       benchmark_checkout(bug_id, buggy, bug_proj_path),
       reset_command,
       clean_command >>

InitDefects4J ==
    /\ \E shapes \in [BenchmarkBugIds -> BugShapes] :
        metadata = [id \in BenchmarkBugIds |-> bug_of(id, shapes[id])]
    /\ d4j = None
    /\ checkouts = <<>>
    /\ dpc = "new"
    /\ RepairerUnused
    /\ RunnerUnused
    /\ ValidateUnused
    /\ ValidatePatchUnused
    /\ HunkRemovalUnused
    /\ FromPatchFileUnused
    /\ EvaluateUnused
    /\ WaitUnused
    /\ IterFilesUnused

\* Defects4J.__init__, lines 126-137
Defects4J_init ==
    /\ dpc = "new"
    /\ LET all == metadata
           single_hunk == select_single_hunk(all)
       IN  d4j' = [all_bugs |-> all,
                   single_hunk_bugs |-> single_hunk,
                   single_line_bugs |-> select_single_line(single_hunk)]
    /\ dpc' = "ready"
    /\ UNCHANGED <<metadata, checkouts, notD4JVars>>

\* checkout(bug_id, buggy), lines 215-217
checkout(bug_id, buggy) ==
    /\ dpc = "ready"
    /\ Len(checkouts) < MaxCheckouts
    /\ bug_id \in DOMAIN d4j.all_bugs
    /\ checkouts' = Append(checkouts,
                        [bug_id |-> bug_id, buggy |-> buggy,
                         bug_proj_path |-> d4j.all_bugs[bug_id].proj_path,
                         executed |-> <<>>])
    /\ dpc' = "checkout"
    /\ UNCHANGED <<metadata, d4j, notD4JVars>>

\* lines 218-231: the next command of the checkout is run
execute ==
    /\ dpc = "checkout"
    /\ LET call == checkouts[Len(checkouts)]
           commands == checkout_commands(call.bug_id, call.buggy,
                                         call.bug_proj_path)
       IN  /\ Len(call.executed) < Len(commands)
           /\ checkouts' = [checkouts EXCEPT ![Len(checkouts)].executed =
                                Append(@, commands[Len(@) + 1])]
    /\ UNCHANGED <<metadata, d4j, dpc, notD4JVars>>

\* line 232: repo.close() and return
checkout_return ==
    /\ dpc = "checkout"
    /\ LET call == checkouts[Len(checkouts)]
       IN  Len(call.executed) = Len(checkout_commands(call.bug_id, call.buggy,
                                                      call.bug_proj_path))
    /\ dpc' = "ready"
    /\ UNCHANGED <<metadata, d4j, checkouts, notD4JVars>>

NextDefects4J ==
    \/ Defects4J_init
    \/ \E bug_id \in BenchmarkBugIds : \E buggy \in BOOLEAN :
        checkout(bug_id, buggy)
    \/ execute
    \/ checkout_return

SpecDefects4J == InitDefects4J /\ [][NextDefects4J]_vars

(***************************************************************************)
(* Claims about Defects4J.                                                  *)
(***************************************************************************)
\* dict d1 is a part of dict d2
sub_dict(d1, d2) ==
    /\ DOMAIN d1 \subseteq DOMAIN d2
    /\ \A id \in DOMAIN d1 : d1[id] = d2[id]

one_file_one_change(bug) ==
    /\ Len(bug.buggy_files) = 1
    /\ Len(bug.buggy_files[1].changes) = 1

\* C14: in every Defects4J instance single_line_bugs is a part of
\* single_hunk_bugs, which is a part of all_bugs, and single_hunk_bugs holds
\* exactly the bugs of all_bugs that have one buggy file with one change.
C14_BugSets ==
    d4j # None =>
        /\ sub_dict(d4j.single_line_bugs, d4j.single_hunk_bugs)
        /\ sub_dict(d4j.single_hunk_bugs, d4j.all_bugs)
        /\ \A id \in DOMAIN d4j.all_bugs :
            id \in DOMAIN d4j.single_hunk_bugs
                <=> one_file_one_change(d4j.all_bugs[id])

\* an instance whose three sets differ, with a bug of one file and several
\* changes left out of single_hunk_bugs
C14_Witness ==
    /\ d4j # None
    /\ DOMAIN d4j.single_line_bugs # {}
    /\ DOMAIN d4j.single_line_bugs # DOMAIN d4j.single_hunk_bugs
    /\ \E id \in DOMAIN d4j.all_bugs :
        /\ id \notin DOMAIN d4j.single_hunk_bugs
        /\ Len(d4j.all_bugs[id].buggy_files) = 1

\* the checkout calls that have returned
returned_checkouts ==
    {i \in DOMAIN checkouts : i < Len(checkouts) \/ dpc = "ready"}

is_benchmark_checkout(command) == command[1] = "defects4j"

\* the positions of the benchmark checkout among the commands of a call
benchmark_positions(call) ==
    {p \in DOMAIN call.executed : is_benchmark_checkout(call.executed[p])}

\* C18 as stated: every checkout runs the benchmark checkout once, for the
\* requested revision, with a hard reset and a clean before it and a hard
\* reset and a clean after it.
C18_ResetAndCleanBeforeAndAfter ==
    \A i \in returned_checkouts :
        LET call == checkouts[i]
            run == call.executed
        IN  \E p \in DOMAIN run :
                /\ benchmark_positions(call) = {p}
                /\ run[p] = benchmark_checkout(call.bug_id, call.buggy,
                                               call.bug_proj_path)
                /\ \E r \in 1..(p - 1) : \E c \in 1..(p - 1) :
                        r < c /\ run[r] = reset_command /\ run[c] = clean_command
                /\ \E r \in (p + 1)..Len(run) : \E c \in (p + 1)..Len(run) :
                        r < c /\ run[r] = reset_command /\ run[c] = clean_command

\* C18 amended: every checkout runs a hard reset, then the benchmark
\* checkout for the requested revision, then a hard reset and then a clean,
\* and nothing else; no clean is run before the benchmark checkout.
C18_ResetCheckoutResetClean ==
    /\ \A i \in returned_checkouts :
        LET call == checkouts[i]
            run == call.executed
        IN  /\ Len(run) = 4
            /\ run[1] = reset_command
            /\ benchmark_positions(call) = {2}
            /\ run[2][4] = split_bug_id(call.bug_id)[1]
            /\ run[2][5] = "-v" \o split_bug_id(call.bug_id)[2]
                                \o (IF call.buggy THEN "b" ELSE "f")
            /\ run[2][7] = d4j.all_bugs[call.bug_id].proj_path
            /\ run[3] = reset_command
            /\ run[4] = clean_command
    /\ \A i \in DOMAIN checkouts :
        \A p \in DOMAIN checkouts[i].executed :
            checkouts[i].executed[p] = clean_command
                => \E q \in 1..(p - 1) :
                        is_benchmark_checkout(checkouts[i].executed[q])

\* a checkout of a fixed revision and one of a buggy revision have returned
C18_Witness ==
    /\ dpc = "ready"
    /\ \E i \in returned_checkouts : ~checkouts[i].buggy
    /\ \E i \in returned_checkouts : checkouts[i].buggy

(***************************************************************************)
(* runner.py: Runner.evaluate_generation.                                   *)
(*                                                                         *)
(* A synthesis result is Successful (a hunk and a time), Pruned or          *)
(* Unfinished (no hunk, a time).  The sweep evaluated is over Chart-11, one *)
(* file of one hunk, and Lang-26, one file of two hunks.                    *)
(***************************************************************************)
Successful(text, time) ==
    [ok |-> TRUE, hunk |-> text, gen_time |-> time,
     is_pruned_halfway |-> FALSE, is_unfinished |-> FALSE]

Pruned(time) ==
    [ok |-> FALSE, hunk |-> "", gen_time |-> time,
     is_pruned_halfway |-> TRUE, is_unfinished |-> FALSE]

Unfinished(time) ==
    [ok |-> FALSE, hunk |-> "", gen_time |-> time,
     is_pruned_halfway |-> FALSE, is_unfinished |-> TRUE]

EvalResults == {Successful("a", 1), Successful("aa", 2), Pruned(1), Unfinished(3)}

EvalBugs ==
    << [id |-> Chart11, files |-> <<1>>], [id |-> Lang26, files |-> <<2>>] >>

\* the hunk of a sweep of batches of one result: a batch for every rank
one_result_batches(ranks) == [r \in DOMAIN ranks |-> <<ranks[r]>>]

\* the raw results of the finished sweeps: up to MaxRounds rounds for
\* Chart-11 and one round for Lang-26
EvalRaws ==
    UNION { { [bug_id \in {Chart11, Lang26} |->
                IF bug_id = Chart11 THEN << <<one_result_batches(r1)>> >>
                ELSE << <<one_result_batches(<<a>>),
                          one_result_batches(<<b>>)>> >>]
              : r1 \in [1..n -> EvalResults],
                a \in EvalResults, b \in EvalResults }
            : n \in 1..MaxRounds }

\* AvgPatch.is_unfinished: a hunk of the patch is unfinished
patch_is_unfinished(patch) ==
    \E i \in DOMAIN hunks_of(patch.file_patches) :
        hunks_of(patch.file_patches)[i].is_unfinished

\* AvgPatch.is_pruned: a hunk of the patch was pruned
patch_is_pruned(patch) ==
    \E i \in DOMAIN hunks_of(patch.file_patches) :
        hunks_of(patch.file_patches)[i].is_pruned_halfway

RECURSIVE sum_gen_time(_)
sum_gen_time(hunks) ==
    IF hunks = <<>> THEN 0 ELSE Head(hunks).gen_time + sum_gen_time(Tail(hunks))

\* AvgPatch.total_gen_time: the sum of the times of the hunks of the patch
total_gen_time(patch) == sum_gen_time(hunks_of(patch.file_patches))

\* utils.binary(pred, x): 1 if pred(x) else 0
binary(pred_x) == IF pred_x THEN 1 ELSE 0

\* GenerationDatapoint.zero()
GenerationDatapoint_zero ==
    [gen_time |-> 0, n_total |-> 0, n_unique |-> 0, n_unfinished |-> 0,
     n_pruned |-> 0]

\* GenerationDatapoint.__add__: the pointwise sum
GenerationDatapoint_add(lhs, rhs) ==
    [gen_time |-> lhs.gen_time + rhs.gen_time,
     n_total |-> lhs.n_total + rhs.n_total,
     n_unique |-> lhs.n_unique + rhs.n_unique,
     n_unfinished |-> lhs.n_unfinished + rhs.n_unfinished,
     n_pruned |-> lhs.n_pruned + rhs.n_pruned]

\* a datapoint that counts the unfinished and the pruned patches
datapoint_of_bad(patch) ==
    [gen_time |-> total_gen_time(patch),
     n_total |-> 1,
     n_unique |-> binary(~patch.is_duplicate),
     n_unfinished |-> binary(patch_is_unfinished(patch)),
     n_pruned |-> binary(patch_is_pruned(patch))]

\* lines 158-166: the datapoint of one patch
datapoint_of(patch) ==
    [gen_time |-> total_gen_time(patch),
     n_total |-> 1,
     n_unique |-> binary(~patch.is_duplicate),
     n_unfinished |-> binary(~patch_is_unfinished(patch)),
     n_pruned |-> binary(~patch_is_pruned(patch))]

RECURSIVE reduce_points(_, _)
\* lines 169-173: functools.reduce(lambda points, point:
\* points + [points[-1] + point], mapped, points)
reduce_points(points, mapped) ==
    IF mapped = <<>> THEN points
    ELSE reduce_points(
            Append(points,
                   GenerationDatapoint_add(points[Len(points)], Head(mapped))),
            Tail(mapped))

\* lines 155-175: the datapoints of every bug of the transformed results
generation_of(transformed_result_dict) ==
    [bug_id \in DOMAIN transformed_result_dict |->
        reduce_points(<<GenerationDatapoint_zero>>,
            [i \in DOMAIN transformed_result_dict[bug_id] |->
                datapoint_of(transformed_result_dict[bug_id][i])])]

InitEvaluate ==
    /\ plan = [bugs |-> EvalBugs, n_samples |-> MaxRounds, batch_size |-> 1]
    /\ repair_result \in EvalRaws
    /\ transformed_result = None
    /\ fresh = "stale"
    /\ generation = None
    /\ RepairerUnused
    /\ ValidateUnused
    /\ ValidatePatchUnused
    /\ HunkRemovalUnused
    /\ FromPatchFileUnused
    /\ Defects4JUnused
    /\ WaitUnused
    /\ IterFilesUnused

\* Runner.evaluate_generation: transform_if_not_performed (lines 95-99),
\* then lines 152-175
evaluate_generation ==
    /\ repair_result # None
    /\ generation = None
    /\ LET after == IF transformed_result = None
                    THEN transformed(repair_result, plan.bugs, None)
                    ELSE transformed_result
       IN  /\ ~after.raised
           /\ transformed_result' = after
           /\ fresh' = IF transformed_result = None THEN "once" ELSE fresh
           /\ generation' = generation_of(after.result_dict)
    /\ UNCHANGED <<plan, repair_result, notEvalVars>>

NextEvaluate ==
    \/ transform
    \/ evaluate_generation

SpecEvaluate == InitEvaluate /\ [][NextEvaluate]_vars

(***************************************************************************)
(* Claims about evaluate_generation.                                        *)
(***************************************************************************)
\* how many of the first n patches are among those at the positions kept
count_of(kept, n) == Cardinality(kept \cap (1..n))

RECURSIVE time_of(_, _)
\* the generation time of the first n patches
time_of(patches, n) ==
    IF n = 0 THEN 0 ELSE time_of(patches, n - 1) + total_gen_time(patches[n])

\* the positions of the patches that are not duplicate, not unfinished, not
\* pruned
not_duplicate(patches) == {i \in DOMAIN patches : ~patches[i].is_duplicate}
not_unfinished(patches) ==
    {i \in DOMAIN patches : ~patch_is_unfinished(patches[i])}
not_pruned(patches) == {i \in DOMAIN patches : ~patch_is_pruned(patches[i])}

\* C15: for every bug with n transformed patches evaluate_generation gives
\* n + 1 datapoints, the first the zero datapoint and the one after k
\* patches the sums over the first k patches of: 1, 1 if not duplicate,
\* 1 if not unfinished, 1 if not pruned, and the total generation time; so
\* n_total is k there and no counter decreases along the sequence.
C15_PrefixSums ==
    generation # None =>
        /\ DOMAIN generation = DOMAIN transformed_result.result_dict
        /\ \A bug_id \in DOMAIN generation :
            LET patches == transformed_result.result_dict[bug_id]
                points == generation[bug_id]
            IN  /\ Len(points) = Len(patches) + 1
                /\ points[1] = GenerationDatapoint_zero
                /\ \A n \in 1..Len(patches) :
                    /\ points[n + 1].n_total = n
                    /\ points[n + 1].n_unique
                            = count_of(not_duplicate(patches), n)
                    /\ points[n + 1].n_unfinished
                            = count_of(not_unfinished(patches), n)
                    /\ points[n + 1].n_pruned
                            = count_of(not_pruned(patches), n)
                    /\ points[n + 1].gen_time = time_of(patches, n)
                    /\ points[n].n_total <= points[n + 1].n_total
                    /\ points[n].n_unique <= points[n + 1].n_unique
                    /\ points[n].n_unfinished <= points[n + 1].n_unfinished
                    /\ points[n].n_pruned <= points[n + 1].n_pruned
                    /\ points[n].gen_time <= points[n + 1].gen_time

\* the datapoints of a bug of three patches: a unique success, a duplicate
\* and a pruned one
C15_Witness ==
    /\ generation # None
    /\ \E bug_id \in DOMAIN generation :
        LET patches == transformed_result.result_dict[bug_id]
        IN  /\ Len(patches) = 3
            /\ ~patches[1].is_duplicate /\ ~is_broken(patches[1].file_patches)
            /\ patches[2].is_duplicate
            /\ patch_is_pruned(patches[3])
            /\ generation[bug_id][4].n_unique = 2
            /\ generation[bug_id][4].n_pruned = 2

(***************************************************************************)
(* repair.py: the channels to the analyzers and                             *)
(* wait_until_all_analyzers_free.                                           *)
(*                                                                         *)
(* A connection is a pipe: what the orchestrator sends waits in the inbox   *)
(* of the analyzer, what the analyzer sends back waits in the outbox until  *)
(* the orchestrator receives it.  recv() blocks until there is something    *)
(* to receive.  Time is counted in ticks; the ceiling max_waiting_time is   *)
(* MaxWaitingTime ticks, and ticks past the ceiling are not counted.        *)
(***************************************************************************)
\* Message(return_result, method, *args)
Message(return_result, method) == [return_result |-> return_result, method |-> method]

\* the same message to every connection, n times
sent_to_all(boxes, message, n) ==
    [c \in DOMAIN boxes |-> boxes[c] \o [i \in 1..n |-> message]]

\* a probe goes to every connection, free or not
send_to_any(is_free, idx) == TRUE

\* line 34: the connections a probe is sent to
send_to(is_free, idx) == ~is_free[idx]

\* line 40: the connections a result is received from
recv_from(is_free, idx) == ~is_free[idx]

InitWait ==
    /\ realm_conns \in 1..MaxBatchSize
    /\ n_buggy_files \in 1..MaxFiles
    /\ batch_is_free = <<>>
    /\ elapsed = 0
    /\ conn_idx = 0
    /\ inbox = [c \in 1..realm_conns |-> <<>>]
    /\ outbox = [c \in 1..realm_conns |-> <<>>]
    /\ outstanding = [c \in 1..realm_conns |-> 0]
    /\ wpc = "init"
    /\ RepairerUnused
    /\ RunnerUnused
    /\ ValidateUnused
    /\ ValidatePatchUnused
    /\ HunkRemovalUnused
    /\ FromPatchFileUnused
    /\ Defects4JUnused
    /\ EvaluateUnused
    /\ IterFilesUnused

\* lines 180-181: Message(False, init) to every connection
send_init_messages ==
    /\ wpc = "init"
    /\ inbox' = sent_to_all(inbox, Message(FALSE, "init"), 1)
    /\ wpc' = "open"
    /\ UNCHANGED <<realm_conns, n_buggy_files, batch_is_free, elapsed, conn_idx,
                   outbox, outstanding, notWaitVars>>

\* lines 199-203: Message(False, open, file) for every file to every
\* connection; lines 28-29 of the wait that follows
send_open_messages ==
    /\ wpc = "open"
    /\ inbox' = sent_to_all(inbox, Message(FALSE, "open"), n_buggy_files)
    /\ batch_is_free' = [c \in 1..realm_conns |-> FALSE]
    /\ elapsed' = 0
    /\ wpc' = "while"
    /\ UNCHANGED <<realm_conns, n_buggy_files, conn_idx, outbox, outstanding,
                   notWaitVars>>

\* line 31: the loop goes on while the ceiling has not elapsed, and the
\* function returns when it has
while_head ==
    /\ wpc = "while"
    /\ IF elapsed < MaxWaitingTime
       THEN wpc' = "send" /\ conn_idx' = 1
       ELSE wpc' = "returned" /\ conn_idx' = conn_idx
    /\ UNCHANGED <<realm_conns, n_buggy_files, batch_is_free, elapsed, inbox,
                   outbox, outstanding, notWaitVars>>

\* lines 32-37: one connection of the first loop
send_is_free ==
    /\ wpc = "send"
    /\ IF send_to(batch_is_free, conn_idx)
       THEN /\ inbox' = [inbox EXCEPT ![conn_idx] =
                            Append(@, Message(TRUE, "is_free"))]
            /\ outstanding' = [outstanding EXCEPT ![conn_idx] = @ + 1]
       ELSE UNCHANGED <<inbox, outstanding>>
    /\ IF conn_idx < realm_conns
       THEN conn_idx' = conn_idx + 1 /\ wpc' = wpc
       ELSE conn_idx' = 1 /\ wpc' = "recv"
    /\ UNCHANGED <<realm_conns, n_buggy_files, batch_is_free, elapsed, outbox,
                   notWaitVars>>

\* the orchestrator is in connection.recv() of line 41
receiving == wpc = "recv" /\ recv_from(batch_is_free, conn_idx)

\* lines 39-42: one connection of the second loop; recv() returns when the
\* analyzer has sent a result
recv_is_free ==
    /\ wpc = "recv"
    /\ IF recv_from(batch_is_free, conn_idx)
       THEN /\ outbox[conn_idx] # <<>>
            /\ batch_is_free' = [batch_is_free EXCEPT ![conn_idx] =
                                    Head(outbox[conn_idx])]
            /\ outbox' = [outbox EXCEPT ![conn_idx] = Tail(@)]
            /\ outstanding' = [outstanding EXCEPT ![conn_idx] = @ - 1]
       ELSE UNCHANGED <<batch_is_free, outbox, outstanding>>
    /\ IF conn_idx < realm_conns
       THEN conn_idx' = conn_idx + 1 /\ wpc' = wpc
       ELSE conn_idx' = conn_idx /\ wpc' = "all"
    /\ UNCHANGED <<realm_conns, n_buggy_files, elapsed, inbox, notWaitVars>>

\* lines 44-46: break when every analyzer is free
all_free ==
    /\ wpc = "all"
    /\ wpc' = IF \A c \in 1..realm_conns : batch_is_free[c]
              THEN "returned" ELSE "while"
    /\ UNCHANGED <<realm_conns, n_buggy_files, batch_is_free, elapsed, conn_idx,
                   inbox, outbox, outstanding, notWaitVars>>

\* the analyzer of connection c handles its next message and sends the
\* result back if the message asks for it; is_free gives True or False
analyzer_handles(c) ==
    /\ inbox[c] # <<>>
    /\ inbox' = [inbox EXCEPT ![c] = Tail(@)]
    /\ IF Head(inbox[c]).return_result
       THEN \E is_free \in BOOLEAN :
                outbox' = [outbox EXCEPT ![c] = Append(@, is_free)]
       ELSE outbox' = outbox
    /\ UNCHANGED <<realm_conns, n_buggy_files, batch_is_free, elapsed, conn_idx,
                   outstanding, wpc, notWaitVars>>

\* time passes
tick ==
    /\ wpc \notin {"init", "open", "returned"}
    /\ elapsed < MaxWaitingTime
    /\ elapsed' = elapsed + 1
    /\ UNCHANGED <<realm_conns, n_buggy_files, batch_is_free, conn_idx, inbox,
                   outbox, outstanding, wpc, notWaitVars>>

\* the steps of the orchestrator
orchestrator ==
    \/ send_init_messages
    \/ send_open_messages
    \/ while_head
    \/ send_is_free
    \/ recv_is_free
    \/ all_free

NextWait ==
    \/ orchestrator
    \/ \E c \in 1..realm_conns : analyzer_handles(c)
    \/ tick

SpecWait == InitWait /\ [][NextWait]_vars

\* the orchestrator runs whenever it can and time passes; nothing is
\* assumed of the analyzers
SpecWaitFair == SpecWait /\ WF_vars(orchestrator) /\ WF_vars(tick)

(***************************************************************************)
(* Claims about the channels and the wait.                                  *)
(***************************************************************************)
\* C16: on every channel at most one request that expects a response is
\* outstanding at any time, and the orchestrator waits to receive only on
\* a channel on which a blocking request is outstanding.
C16_OneOutstandingRequest ==
    /\ \A c \in DOMAIN outstanding : outstanding[c] \in {0, 1}
    /\ receiving => outstanding[conn_idx] = 1

\* the second round of probes: a connection that reported free is left
\* out, another one is probed again and the orchestrator waits for it
C16_Witness ==
    /\ receiving
    /\ \E c \in DOMAIN batch_is_free : batch_is_free[c]
    /\ outstanding[conn_idx] = 1

\* C17: wait_until_all_analyzers_free always returns, whatever the
\* analyzers do.
C17_AlwaysReturns == <>(wpc = "returned")

(***************************************************************************)
(* runner.py: iter_files as a generator.                                    *)
(*                                                                         *)
(* file_results holds, for every file and every hunk of it, a              *)
(* HunkRepairResult: the batches recorded for the hunk (results) and its    *)
(* BuggyHunk (file, start, end).  Every outcome is tagged with the file,    *)
(* the hunk, the batch and the place in the batch it was recorded at, so    *)
(* that an outcome put into the wrong patch or the wrong hunk shows.        *)
(***************************************************************************)
\* the outcome recorded at place i of batch b of hunk h of file f
outcome(f, h, b, i) == [ok |-> TRUE, hunk |-> <<f, h, b, i>>]

\* the BuggyHunk the repair records for hunk h of file f: the file and the
\* character offsets of the removed region
buggy_hunk_at(f, h) == [file |-> f, start |-> 2 * h, end |-> 2 * h + 1]

\* the HunkRepairResult of hunk h of file f after rounds rounds of
\* batch_size outcomes each
hunk_repair_result(f, h, rounds, batch_size) ==
    [results |-> [b \in 1..rounds |-> [i \in 1..batch_size |-> outcome(f, h, b, i)]],
     buggy_hunk |-> buggy_hunk_at(f, h)]

\* the rounds recorded for hunk h of file f at some moment of a sweep that
\* records n_samples rounds for a hunk before it goes to the next hunk: the
\* hunk recorded last has last_rounds rounds, the hunks before it all
rounds_at(f, h, n_hunks, n_samples, last_rounds) ==
    IF f = Len(n_hunks) /\ h = n_hunks[f] THEN last_rounds ELSE n_samples

\* the raw results of one bug at some moment of its sweep
FileResults ==
    UNION { { [f \in 1..n_files |->
                 [h \in 1..n_hunks[f] |->
                     hunk_repair_result(f, h,
                         rounds_at(f, h, n_hunks, n_samples, last_rounds),
                         batch_size)]]
              : n_hunks \in [1..n_files -> 1..MaxChanges],
                last_rounds \in 1..n_samples }
            : n_files \in 1..MaxFiles, n_samples \in 1..MaxSamples,
              batch_size \in 1..MaxBatchSize }

\* iter_files, lines 245-262, the first member of every pair: the tree
\* file -> hunk -> batches that groups_of flattens
tagged_results(frs) ==
    [f \in DOMAIN frs |-> [h \in DOMAIN frs[f] |-> frs[f][h].results]]

\* iter_files, line 266: the pairs of a group name one file
one_file_per_group(frs) ==
    \A f \in DOMAIN frs :
        Cardinality({ frs[f][h].buggy_hunk.file :
                        h \in { x \in DOMAIN frs[f] :
                                  groups_of(tagged_results(frs))[f][x] # <<>> } }) = 1

\* iter_files, lines 270-281: the AvgFilePatch list of one rank: for every
\* file the outcomes of that rank, the file of the last pair and the
\* offsets of every pair
file_patches(frs, rank) ==
    [f \in DOMAIN frs |->
        [hunks |-> patches_of(groups_of(tagged_results(frs)))[rank][f],
         bug |-> frs[f][Len(frs[f])].buggy_hunk.file,
         buggy_hunk_indices |->
             [h \in DOMAIN frs[f] |->
                 <<frs[f][h].buggy_hunk.start, frs[f][h].buggy_hunk.end>>]]]

InitIterFiles ==
    /\ file_results \in FileResults
    /\ yielded = <<>>
    /\ ipc = "called"
    /\ RepairerUnused
    /\ RunnerUnused
    /\ ValidateUnused
    /\ ValidatePatchUnused
    /\ HunkRemovalUnused
    /\ FromPatchFileUnused
    /\ Defects4JUnused
    /\ EvaluateUnused
    /\ WaitUnused

\* iter_files, lines 242-266: the groups are built and the assertions made
iter_files_groups ==
    /\ ipc = "called"
    /\ ipc' = IF /\ groups_ok(groups_of(tagged_results(file_results)))
                 /\ one_file_per_group(file_results)
              THEN "zip" ELSE "raised"
    /\ UNCHANGED <<file_results, yielded>>
    /\ UNCHANGED notIterVars

\* iter_files, lines 268-282: the next rank is yielded
iter_files_yield ==
    /\ ipc = "zip"
    /\ Len(yielded) < Len(patches_of(groups_of(tagged_results(file_results))))
    /\ yielded' = Append(yielded, file_patches(file_results, Len(yielded) + 1))
    /\ UNCHANGED <<file_results, ipc>>
    /\ UNCHANGED notIterVars

\* iter_files, line 268: the zip is exhausted, the generator ends
iter_files_end ==
    /\ ipc = "zip"
    /\ Len(yielded) = Len(patches_of(groups_of(tagged_results(file_results))))
    /\ ipc' = "done"
    /\ UNCHANGED <<file_results, yielded>>
    /\ UNCHANGED notIterVars

NextIterFiles ==
    \/ iter_files_groups
    \/ iter_files_yield
    \/ iter_files_end

SpecIterFiles == InitIterFiles /\ [][NextIterFiles]_vars

(***************************************************************************)
(* Claims about iter_files (checked under SpecIterFiles).                   *)
(***************************************************************************)
\* the number of flattened outcomes of hunk h of file f
n_outcomes(f, h) ==
    LET batches == file_results[f][h].results
    IN  Len(batches) * Len(batches[1])

\* the numbers of outcomes of all hunks of all files
outcome_counts ==
    UNION { { n_outcomes(f, h) : h \in DOMAIN file_results[f] }
            : f \in DOMAIN file_results }

\* the outcome of rank r (1-based) of hunk h of file f: the batches are of
\* one size, so the rank names a batch and a place in it
outcome_of_rank(f, h, r) ==
    LET batches == file_results[f][h].results
        size == Len(batches[1])
    IN  batches[((r - 1) \div size) + 1][((r - 1) % size) + 1]

\* two hunks of one file have different numbers of outcomes
uneven_file ==
    \E f \in DOMAIN file_results :
        \E h1, h2 \in DOMAIN file_results[f] : n_outcomes(f, h1) # n_outcomes(f, h2)

\* the patch yielded as the r-th is the one of rank r
patch_of_rank(r) ==
    /\ DOMAIN yielded[r] = DOMAIN file_results
    /\ \A f \in DOMAIN file_results :
           /\ DOMAIN yielded[r][f].hunks = DOMAIN file_results[f]
           /\ DOMAIN yielded[r][f].buggy_hunk_indices = DOMAIN file_results[f]
           /\ yielded[r][f].bug = f
           /\ \A h \in DOMAIN file_results[f] :
                  /\ yielded[r][f].hunks[h] = outcome_of_rank(f, h, r)
                  /\ yielded[r][f].buggy_hunk_indices[h] =
                         <<buggy_hunk_at(f, h).start, buggy_hunk_at(f, h).end>>

\* C22: when every hunk of every file has the same number R of flattened
\* outcomes, iter_files fails no assertion and yields exactly R patches, the
\* k-th holding one AvgFilePatch per file, in file order, whose hunks are
\* the k-th outcome of every hunk of the file, in the stored order, each
\* with the (start, end) offsets of its hunk; when two hunks of one file
\* have different numbers of outcomes, iter_files fails an assertion and
\* yields nothing.
C22_LockstepPatches ==
    /\ uneven_file => ipc \in {"called", "raised"} /\ yielded = <<>>
    /\ Cardinality(outcome_counts) = 1 =>
           LET R == CHOOSE n \in outcome_counts : TRUE
           IN  /\ ipc # "raised"
               /\ Len(yielded) <= R
               /\ ipc = "done" => Len(yielded) = R
               /\ \A r \in DOMAIN yielded : patch_of_rank(r)

\* C22 witness: the generator ended after it yielded two patches for a bug
\* of two files, one of them with two hunks, recorded in batches of one
C22_Witness ==
    /\ ipc = "done"
    /\ Len(yielded) = 2
    /\ Len(file_results) = 2
    /\ \E f \in DOMAIN file_results : Len(file_results[f]) = 2
    /\ Len(file_results[1][1].results) = 2

====
